---- MODULE Spec2Model ----
(***************************************************************************)
(* Verification model of the k-mer index table of MMseqs2                  *)
(* (src/src/prefiltering/IndexTable.h): the two-pass build (count, prefix  *)
(* sum, fill, pointer rewind), the lookup, the adoption of external        *)
(* buffers and the ownership of the buffers.                               *)
(*                                                                         *)
(* Arrays of the C++ code are functions over 0-based index ranges.  A      *)
(* sequence is a TLA+ sequence of symbols 0..alphabetSize-1; the symbol at *)
(* 0-based position p is s[p+1].                                           *)
(***************************************************************************)
EXTENDS Integers, Sequences, FiniteSets, TLC

\* ------------------------------------------------------------------------
\* Parameters of the table and bounds of the model
\* ------------------------------------------------------------------------

\* constructor arguments (IndexTable.h:63)
alphabetSize == 2
kmerSize == 2

\* number of database sequences fed to the build
NumSeqs == 2
\* bound on the summed length of the database sequences
MaxTotalLen == 5

\* stands for 2^32-1: TLC's integers end at 2^31-1.  It is only ever
\* compared with k-mer indices (< tableSize) and database keys.
UINT_MAX == 2147483647

\* per-symbol diagonal score (char *diagonalScore) and the thresholds tried
diagonalScore == <<1, 2>>
Thresholds == {0, 3, 4}

RECURSIVE ipow(_, _)
ipow(base, exponent) ==
    IF exponent = 0 THEN 1 ELSE base * ipow(base, exponent - 1)

tableSize == ipow(alphabetSize, kmerSize)

Symbols == 0 .. (alphabetSize - 1)
Kmers == 0 .. (tableSize - 1)
SeqIds == 0 .. (NumSeqs - 1)

\* an entry of a store that was allocated but never written (new[] leaves
\* IndexEntryLocal uninitialised): its value is indeterminate
Garbage == [seqId |-> UINT_MAX, position_j |-> 65535, indeterminate |-> TRUE]

\* ------------------------------------------------------------------------
\* Collaborators: Sequence (k-mer cursor) and Indexer
\* ------------------------------------------------------------------------

\* positions at which the cursor of Sequence yields a k-mer
KmerPositions(s) == 0 .. (Len(s) - kmerSize)

\* Sequence::nextKmer at cursor position p: the k symbols from p on
KmerAt(s, p) == [j \in 0 .. (kmerSize - 1) |-> s[p + j + 1]]

\* Indexer::int2index(kmer, 0, kmerSize): dense index in [0, A^k)
RECURSIVE int2index(_, _, _)
int2index(kmer, begin, end) ==
    IF begin >= end THEN 0
    ELSE kmer[begin] * ipow(alphabetSize, begin) + int2index(kmer, begin + 1, end)

\* ------------------------------------------------------------------------
\* Helpers shared by counting and fill
\* ------------------------------------------------------------------------

\* score += diagonalScore[kmer[pos]] for pos in 0..kmerSize-1
RECURSIVE kmerScore(_, _)
kmerScore(kmer, pos) ==
    IF pos >= kmerSize THEN 0
    ELSE diagonalScore[kmer[pos] + 1] + kmerScore(kmer, pos + 1)

\* mutant of comapreByIdAndPos: by kmer, then by descending position_j
comapreByKmerAndLaterPos(first, second) ==
    IF first.kmer < second.kmer THEN TRUE
    ELSE IF second.kmer < first.kmer THEN FALSE
    ELSE IF second.position_j < first.position_j THEN TRUE
    ELSE FALSE

\* IndexEntryLocalTmp::comapreByIdAndPos: by kmer, then by position_j
comapreByIdAndPos(first, second) ==
    IF first.kmer < second.kmer THEN TRUE
    ELSE IF second.kmer < first.kmer THEN FALSE
    ELSE IF first.position_j < second.position_j THEN TRUE
    ELSE FALSE

\* std::sort(seqKmerPosBuffer, seqKmerPosBuffer + countKmer): ascending
\* (insertion sort; the result of sorting integers is unique)
RECURSIVE InsertKmerIdx(_, _)
InsertKmerIdx(x, sorted) ==
    IF sorted = <<>> THEN <<x>>
    ELSE IF x < Head(sorted) THEN <<x>> \o sorted
         ELSE <<Head(sorted)>> \o InsertKmerIdx(x, Tail(sorted))

RECURSIVE SortKmerIdx(_)
SortKmerIdx(buf) ==
    IF buf = <<>> THEN <<>>
    ELSE InsertKmerIdx(Head(buf), SortKmerIdx(Tail(buf)))

\* std::sort(buffer, buffer + kmerPos, comapreByIdAndPos): the order is
\* total on one sequence's buffer (positions are distinct), so the result
\* is unique although std::sort is not stable
RECURSIVE InsertTmp(_, _)
InsertTmp(x, sorted) ==
    IF sorted = <<>> THEN <<x>>
    ELSE IF comapreByIdAndPos(x, Head(sorted)) THEN <<x>> \o sorted
         ELSE <<Head(sorted)>> \o InsertTmp(x, Tail(sorted))

RECURSIVE SortTmp(_)
SortTmp(buf) ==
    IF buf = <<>> THEN <<>>
    ELSE InsertTmp(Head(buf), SortTmp(Tail(buf)))

\* ------------------------------------------------------------------------
\* Counting pass: IndexTable::addKmerCount
\* ------------------------------------------------------------------------

\* Sequence::hasNextKmer with the cursor before position p
hasNextKmer(s, p) == p + kmerSize <= Len(s)

\* mutant of CountSkipsKmer: a k-mer scoring exactly the threshold is skipped
CountSkipsKmerAtThreshold(kmer, threshold) ==
    IF threshold > 0 THEN kmerScore(kmer, 0) <= threshold ELSE FALSE

\* lines 138-146: the k-mer is skipped when threshold > 0 and its score is
\* below the threshold
CountSkipsKmer(kmer, threshold) ==
    IF threshold > 0 THEN kmerScore(kmer, 0) < threshold ELSE FALSE

\* lines 136-150: the k-mer indices of s that pass the threshold, in
\* cursor order (seqKmerPosBuffer[0 .. countKmer-1])
RECURSIVE CountScan(_, _, _, _)
CountScan(s, p, threshold, seqKmerPosBuffer) ==
    IF ~hasNextKmer(s, p) THEN seqKmerPosBuffer
    ELSE LET kmer == KmerAt(s, p) IN
         IF CountSkipsKmer(kmer, threshold)
         THEN CountScan(s, p + 1, threshold, seqKmerPosBuffer)
         ELSE CountScan(s, p + 1, threshold,
                        Append(seqKmerPosBuffer, int2index(kmer, 0, kmerSize)))

\* mutant of CountsKmer: every buffer record is counted, repeats included
CountsKmerNoDedup(prevKmerIdx, kmerIdx) == TRUE

\* line 158: a k-mer index is counted when it differs from the previous one
CountsKmer(prevKmerIdx, kmerIdx) == prevKmerIdx # kmerIdx

\* lines 154-166: walk of the sorted buffer, one fetch-and-add per distinct
\* index.  Yields the offsets array and countUniqKmer.
RECURSIVE CountWalk(_, _, _, _, _)
CountWalk(buf, i, prevKmerIdx, offs, countUniqKmer) ==
    IF i > Len(buf) THEN [offsets |-> offs, ret |-> countUniqKmer]
    ELSE IF CountsKmer(prevKmerIdx, buf[i])
         THEN CountWalk(buf, i + 1, buf[i],
                        [offs EXCEPT ![buf[i]] = @ + 1], countUniqKmer + 1)
         ELSE CountWalk(buf, i + 1, buf[i], offs, countUniqKmer)

\* addKmerCount(s, idxer, seqKmerPosBuffer, threshold, diagonalScore)
addKmerCount(offs, s, threshold) ==
    CountWalk(SortKmerIdx(CountScan(s, 0, threshold, <<>>)), 1, UINT_MAX, offs, 0)

\* ------------------------------------------------------------------------
\* init, initMemory, revertPointer, getDBSeqList
\* ------------------------------------------------------------------------

\* the constructor's memset: tableSize + 1 zeroed cells
ZeroOffsets == [i \in 0 .. tableSize |-> 0]

\* mutant of init: the cell is added before it is stored (inclusive sum)
RECURSIVE initLoopInclusive(_, _, _)
initLoopInclusive(offs, i, offset) ==
    IF i >= tableSize THEN [offs EXCEPT ![tableSize] = offset]
    ELSE initLoopInclusive([offs EXCEPT ![i] = offset + offs[i]], i + 1, offset + offs[i])

initInclusive(offs) == initLoopInclusive(offs, 0, 0)

\* lines 207-213: exclusive prefix sum in place, total into offsets[tableSize]
RECURSIVE initLoop(_, _, _)
initLoop(offs, i, offset) ==
    IF i >= tableSize THEN [offs EXCEPT ![tableSize] = offset]
    ELSE initLoop([offs EXCEPT ![i] = offset], i + 1, offset + offs[i])

init(offs) == initLoop(offs, 0, 0)

\* initMemory: entries = new IndexEntryLocal[tableEntriesNum], not initialised
initMemory(tableEntriesNum) == [slot \in 0 .. (tableEntriesNum - 1) |-> Garbage]

\* lines 231-234: offsets[i] = offsets[i-1] for i = tableSize down to 1
RECURSIVE revertLoop(_, _)
revertLoop(offs, i) ==
    IF i <= 0 THEN [offs EXCEPT ![0] = 0]
    ELSE revertLoop([offs EXCEPT ![i] = offs[i - 1]], i - 1)

\* mutant of revertPointer: offsets[0] is not reset
revertPointerKeepsFirst(offs) == [revertLoop(offs, tableSize) EXCEPT ![0] = offs[0]]

revertPointer(offs) == revertLoop(offs, tableSize)

\* getDBSeqList(kmer, &matchedListSize): the list length (offsets[kmer+1] -
\* offsets[kmer]; a negative number stands for the wrapped size_t) and the
\* entries from entries + offsets[kmer] on; a slot outside the store reads
\* as indeterminate
getDBSeqListSize(offs, kmer) == offs[kmer + 1] - offs[kmer]

getDBSeqList(offs, ents, kmer) ==
    [j \in 0 .. (getDBSeqListSize(offs, kmer) - 1) |->
        IF offs[kmer] + j \in DOMAIN ents THEN ents[offs[kmer] + j] ELSE Garbage]

\* ------------------------------------------------------------------------
\* Fill pass: IndexTable::addSequence
\* ------------------------------------------------------------------------

\* line 334: the k-mer index lies in the caller's window
InWindow(kmerIdx, aaFrom, aaSize) == kmerIdx >= aaFrom /\ kmerIdx < aaFrom + aaSize

\* line 336: "if region got masked do not add kmer", read from the live cells
RegionMasked(offs, kmerIdx) == offs[kmerIdx + 1] - offs[kmerIdx] = 0

\* mutant of FillSkipsKmer: a score equal to the threshold is rejected too
FillSkipsKmerAtThreshold(kmer, threshold) ==
    IF threshold > 0 THEN kmerScore(kmer, 0) <= threshold ELSE FALSE

\* lines 339-347: the k-mer is skipped when threshold > 0 and its score is
\* below the threshold
FillSkipsKmer(kmer, threshold) ==
    IF threshold > 0 THEN kmerScore(kmer, 0) < threshold ELSE FALSE

\* lines 348-350: the buffer record of the k-mer at cursor position p
\* (position_j is an unsigned short)
TmpEntry(kmerIdx, id, p) ==
    [kmer |-> kmerIdx, seqId |-> id, position_j |-> p % 65536]

\* lines 331-353: the buffer filled by the cursor loop
RECURSIVE FillScan(_, _, _, _, _, _, _, _)
FillScan(s, id, p, offs, aaFrom, aaSize, threshold, buffer) ==
    IF ~hasNextKmer(s, p) THEN buffer
    ELSE LET kmer == KmerAt(s, p)
             kmerIdx == int2index(kmer, 0, kmerSize)
         IN  IF InWindow(kmerIdx, aaFrom, aaSize)
                /\ ~RegionMasked(offs, kmerIdx)
                /\ ~FillSkipsKmer(kmer, threshold)
             THEN FillScan(s, id, p + 1, offs, aaFrom, aaSize, threshold,
                           Append(buffer, TmpEntry(kmerIdx, id, p)))
             ELSE FillScan(s, id, p + 1, offs, aaFrom, aaSize, threshold, buffer)

\* mutant of WritesKmer: every buffer record is written, repeats included
WritesKmerNoDedup(kmerIdx, prevKmer) == TRUE

\* line 361: a posting is written for the first buffer record of a k-mer
WritesKmer(kmerIdx, prevKmer) == kmerIdx # prevKmer

\* lines 362-364: the posting written through entries + offsets[kmerIdx]
Posting(tmp) == [seqId |-> tmp.seqId, position_j |-> tmp.position_j]

\* a store through entries + slot; a slot outside the allocated store is a
\* heap overflow and leaves the store as it is (the write is still logged)
StoreEntry(ents, slot, posting) ==
    IF slot \in DOMAIN ents THEN [ents EXCEPT ![slot] = posting] ELSE ents

\* the record of one posting write: which bucket, which slot, what
WriteRecord(tmp, slot) ==
    [kmer |-> tmp.kmer, slot |-> slot, seqId |-> tmp.seqId,
     position_j |-> tmp.position_j]

\* lines 358-369: walk of the sorted buffer
RECURSIVE FillWalk(_, _, _, _, _, _)
FillWalk(buffer, pos, prevKmer, offs, ents, written) ==
    IF pos > Len(buffer)
    THEN [offsets |-> offs, entries |-> ents, written |-> written]
    ELSE LET kmerIdx == buffer[pos].kmer IN
         IF WritesKmer(kmerIdx, prevKmer)
         THEN FillWalk(buffer, pos + 1, kmerIdx,
                       [offs EXCEPT ![kmerIdx] = @ + 1],
                       StoreEntry(ents, offs[kmerIdx], Posting(buffer[pos])),
                       written \cup {WriteRecord(buffer[pos], offs[kmerIdx])})
         ELSE FillWalk(buffer, pos + 1, kmerIdx, offs, ents, written)

\* addSequence(s, idxer, buffer, aaFrom, aaSize, threshold, diagonalScore)
addSequence(offs, ents, s, id, aaFrom, aaSize, threshold) ==
    FillWalk(SortTmp(FillScan(s, id, 0, offs, aaFrom, aaSize, threshold, <<>>)),
             1, UINT_MAX, offs, ents, {})

\* ------------------------------------------------------------------------
\* The inputs of a build
\* ------------------------------------------------------------------------

\* all sequences of exactly n symbols
SeqsOfLen(n) == [1 .. n -> Symbols]

\* all tuples of n sequences whose lengths sum to at most budget
RECURSIVE SeqTuples(_, _)
SeqTuples(n, budget) ==
    IF n = 0 THEN {<<>>}
    ELSE UNION { { <<s>> \o rest : rest \in SeqTuples(n - 1, budget - Len(s)) } :
                 s \in UNION { SeqsOfLen(l) : l \in 0 .. budget } }

\* the sequence with database id "id"
SeqOf(db, id) == db[id + 1]

\* the windows of the fill workers: worker 1 fills alone with the full
\* window; workers 2 and 3 split [0, tableSize) between them
Windows ==
    << [aaFrom |-> 0, aaSize |-> tableSize],
       [aaFrom |-> 0, aaSize |-> tableSize \div 2],
       [aaFrom |-> tableSize \div 2, aaSize |-> tableSize - (tableSize \div 2)] >>

Workers == DOMAIN Windows

RECURSIVE SumOver(_, _)
SumOver(f, S) ==
    IF S = {} THEN 0
    ELSE LET x == CHOOSE y \in S : TRUE IN f[x] + SumOver(f, S \ {x})

\* ------------------------------------------------------------------------
\* State
\* ------------------------------------------------------------------------

VARIABLES
    seqs,             \* the database: tuple of NumSeqs sequences
    threshold,        \* the score threshold of the build
    offsets,          \* size_t *offsets (tableSize + 1 cells)
    entries,          \* IndexEntryLocal *entries (the posting store)
    tableEntriesNum,  \* field tableEntriesNum
    size,             \* field size
    phase,            \* "count", "offsets", "fill", "ready"
    inited,           \* init() has run
    allocd,           \* initMemory() has run
    countNext,        \* id of the next sequence to count
    fillNext,         \* per fill worker: id of its next sequence
    masked,           \* the bucket masked between init and fill, if any
    counted,          \* history: the offsets array as init() found it
    startOffs,        \* history: the offsets array as init() left it
    cntRet,           \* history: return value of addKmerCount per sequence
    fillLog,          \* history: every posting write of the fill pass
    wk,               \* per concurrent worker: its locals inside a call
    incLog,           \* history: fetch-and-adds of the counting pass
    tbl,              \* the IndexTable objects of the adoption scenario
    heap,             \* the buffers of the adoption scenario
    freeLog,          \* history: every delete[] of a buffer
    call              \* a call of a function outside the build: arguments, locals, outcome

inputVars == <<seqs, threshold>>
tableVars == <<offsets, entries, tableEntriesNum, size>>
buildVars == <<phase, inited, allocd, countNext, fillNext, masked>>
histVars == <<counted, startOffs, cntRet, fillLog>>
parVars == <<wk, incLog>>
adoptVars == <<tbl, heap, freeLog>>
callVars == <<call>>
vars == <<inputVars, tableVars, buildVars, histVars, parVars, adoptVars, callVars>>

\* the values of the variables a specification does not use
NoWorkers == <<>>
NoIncs == {}
NoTables == <<>>
NoHeap == <<>>
NoFrees == {}
NoCall == <<>>

\* ------------------------------------------------------------------------
\* The build of one table, call by call
\* ------------------------------------------------------------------------

\* IndexTable(alphabetSize, kmerSize, false): zeroed offsets, no entries
Init ==
    /\ seqs \in SeqTuples(NumSeqs, MaxTotalLen)
    /\ threshold \in Thresholds
    /\ offsets = ZeroOffsets
    /\ entries = <<>>
    /\ tableEntriesNum = 0
    /\ size = 0
    /\ phase = "count"
    /\ inited = FALSE
    /\ allocd = FALSE
    /\ countNext = 0
    /\ fillNext = [w \in Workers |-> 0]
    /\ masked = {}
    /\ counted = ZeroOffsets
    /\ startOffs = ZeroOffsets
    /\ cntRet = [id \in SeqIds |-> 0]
    /\ fillLog = {}
    /\ wk = NoWorkers
    /\ incLog = NoIncs
    /\ tbl = NoTables
    /\ heap = NoHeap
    /\ freeLog = NoFrees
    /\ call = NoCall

\* the caller counts the sequences one after the other
AddKmerCount ==
    /\ phase = "count"
    /\ countNext < NumSeqs
    /\ LET r == addKmerCount(offsets, SeqOf(seqs, countNext), threshold) IN
         /\ offsets' = r.offsets
         /\ cntRet' = [cntRet EXCEPT ![countNext] = r.ret]
    /\ countNext' = countNext + 1
    /\ UNCHANGED <<parVars, adoptVars, inputVars, callVars, entries, tableEntriesNum, size, phase, inited,
                   allocd, fillNext, masked, counted, startOffs, fillLog>>

\* init(), once every sequence is counted
InitOffsets ==
    /\ phase = "count"
    /\ countNext = NumSeqs
    /\ ~inited
    /\ counted' = offsets
    /\ offsets' = init(offsets)
    /\ startOffs' = offsets'
    /\ inited' = TRUE
    /\ phase' = IF allocd THEN "offsets" ELSE "count"
    /\ UNCHANGED <<parVars, adoptVars, inputVars, callVars, entries, tableEntriesNum, size, allocd, countNext,
                   fillNext, masked, cntRet, fillLog>>

\* initMemory(tableEntriesNum, NULL, dbSize) with the sum of the counts
InitMemory ==
    /\ phase = "count"
    /\ countNext = NumSeqs
    /\ ~allocd
    /\ tableEntriesNum' = SumOver(cntRet, SeqIds)
    /\ size' = NumSeqs
    /\ entries' = initMemory(tableEntriesNum')
    /\ allocd' = TRUE
    /\ phase' = IF inited THEN "offsets" ELSE "count"
    /\ UNCHANGED <<parVars, adoptVars, inputVars, callVars, offsets, inited, countNext, fillNext, masked,
                   histVars>>

\* the caller masks bucket m through getOffsets(): offsets[m] = offsets[m+1]
Mask(m) ==
    /\ phase = "offsets"
    /\ masked = {}
    /\ offsets' = [offsets EXCEPT ![m] = offsets[m + 1]]
    /\ masked' = {m}
    /\ UNCHANGED <<parVars, adoptVars, inputVars, callVars, entries, tableEntriesNum, size, phase, inited,
                   allocd, countNext, fillNext, histVars>>

\* worker 1 fills alone, or workers 2 and 3 fill together
MayFill(w) ==
    IF w = 1 THEN \A v \in Workers \ {1} : fillNext[v] = 0
    ELSE fillNext[1] = 0

FillComplete ==
    \/ fillNext[1] = NumSeqs
    \/ \A v \in Workers \ {1} : fillNext[v] = NumSeqs

\* worker w passes its next sequence to addSequence with its window
AddSequence(w) ==
    /\ phase \in {"offsets", "fill"}
    /\ MayFill(w)
    /\ fillNext[w] < NumSeqs
    /\ LET r == addSequence(offsets, entries, SeqOf(seqs, fillNext[w]), fillNext[w],
                            Windows[w].aaFrom, Windows[w].aaSize, threshold) IN
         /\ offsets' = r.offsets
         /\ entries' = r.entries
         /\ fillLog' = fillLog \cup r.written
    /\ fillNext' = [fillNext EXCEPT ![w] = @ + 1]
    /\ phase' = "fill"
    /\ UNCHANGED <<parVars, adoptVars, inputVars, callVars, tableEntriesNum, size, inited, allocd, countNext,
                   masked, counted, startOffs, cntRet>>

\* revertPointer(), once the fill is complete
RevertPointer ==
    /\ phase = "fill"
    /\ FillComplete
    /\ offsets' = revertPointer(offsets)
    /\ phase' = "ready"
    /\ UNCHANGED <<parVars, adoptVars, inputVars, callVars, entries, tableEntriesNum, size, inited, allocd,
                   countNext, fillNext, masked, histVars>>

Next ==
    \/ AddKmerCount
    \/ InitOffsets
    \/ InitMemory
    \/ \E m \in Kmers : Mask(m)
    \/ \E w \in Workers : AddSequence(w)
    \/ RevertPointer

Spec == Init /\ [][Next]_vars

\* ------------------------------------------------------------------------
\* The fill pass run by concurrent workers with disjoint windows
\* ------------------------------------------------------------------------

\* the workers that fill concurrently: those whose windows split [0, A^k)
FillWorkers == Workers \ {1}

\* the locals of a worker entering addSequence: cursor reset, kmerPos = 0
EnterAddSequence ==
    [pc |-> "scan", p |-> 0, buffer |-> <<>>, pos |-> 1, prevKmer |-> UINT_MAX]

InitPar ==
    /\ seqs \in SeqTuples(NumSeqs, MaxTotalLen)
    /\ threshold \in Thresholds
    /\ offsets = ZeroOffsets
    /\ entries = <<>>
    /\ tableEntriesNum = 0
    /\ size = 0
    /\ phase = "count"
    /\ inited = FALSE
    /\ allocd = FALSE
    /\ countNext = 0
    /\ fillNext = [w \in Workers |-> 0]
    /\ masked = {}
    /\ counted = ZeroOffsets
    /\ startOffs = ZeroOffsets
    /\ cntRet = [id \in SeqIds |-> 0]
    /\ fillLog = {}
    /\ wk = [w \in FillWorkers |-> EnterAddSequence]
    /\ incLog = NoIncs
    /\ tbl = NoTables
    /\ heap = NoHeap
    /\ freeLog = NoFrees
    /\ call = NoCall

\* lines 331-353, one iteration of the cursor loop of worker w: the mask
\* test reads the cells as they are at this moment
ParScan(w) ==
    /\ phase \in {"offsets", "fill"}
    /\ fillNext[w] < NumSeqs
    /\ wk[w].pc = "scan"
    /\ hasNextKmer(SeqOf(seqs, fillNext[w]), wk[w].p)
    /\ LET kmer == KmerAt(SeqOf(seqs, fillNext[w]), wk[w].p)
           kmerIdx == int2index(kmer, 0, kmerSize)
           keep == /\ InWindow(kmerIdx, Windows[w].aaFrom, Windows[w].aaSize)
                   /\ ~RegionMasked(offsets, kmerIdx)
                   /\ ~FillSkipsKmer(kmer, threshold)
       IN  wk' = [wk EXCEPT ![w].p = @ + 1,
                            ![w].buffer = IF keep
                                          THEN Append(@, TmpEntry(kmerIdx, fillNext[w], wk[w].p))
                                          ELSE @]
    /\ phase' = "fill"
    /\ UNCHANGED <<incLog, adoptVars, inputVars, callVars, tableVars, inited, allocd,
                   countNext, fillNext, masked, histVars>>

\* lines 355-358: the cursor loop is over; sort the buffer, start the walk
ParSort(w) ==
    /\ phase \in {"offsets", "fill"}
    /\ fillNext[w] < NumSeqs
    /\ wk[w].pc = "scan"
    /\ ~hasNextKmer(SeqOf(seqs, fillNext[w]), wk[w].p)
    /\ wk' = [wk EXCEPT ![w].pc = "write",
                        ![w].buffer = IF Len(@) > 1 THEN SortTmp(@) ELSE @,
                        ![w].pos = 1,
                        ![w].prevKmer = UINT_MAX]
    /\ phase' = "fill"
    /\ UNCHANGED <<incLog, adoptVars, inputVars, callVars, tableVars, inited, allocd,
                   countNext, fillNext, masked, histVars>>

\* lines 359-369, one iteration of the walk of worker w.  The cells and
\* slots of a window are written by its worker alone, so the store of the
\* posting and the increment of the cursor are one step.
ParWrite(w) ==
    /\ phase = "fill"
    /\ wk[w].pc = "write"
    /\ wk[w].pos <= Len(wk[w].buffer)
    /\ LET tmp == wk[w].buffer[wk[w].pos] IN
         /\ IF WritesKmer(tmp.kmer, wk[w].prevKmer)
            THEN /\ entries' = StoreEntry(entries, offsets[tmp.kmer], Posting(tmp))
                 /\ offsets' = [offsets EXCEPT ![tmp.kmer] = @ + 1]
                 /\ fillLog' = fillLog \cup {WriteRecord(tmp, offsets[tmp.kmer])}
            ELSE UNCHANGED <<entries, offsets, fillLog>>
         /\ wk' = [wk EXCEPT ![w].pos = @ + 1, ![w].prevKmer = tmp.kmer]
    /\ UNCHANGED <<incLog, adoptVars, inputVars, callVars, tableEntriesNum, size, buildVars,
                   counted, startOffs, cntRet>>

\* line 370: addSequence returns; the worker turns to its next sequence
ParReturn(w) ==
    /\ phase = "fill"
    /\ wk[w].pc = "write"
    /\ wk[w].pos > Len(wk[w].buffer)
    /\ fillNext' = [fillNext EXCEPT ![w] = @ + 1]
    /\ wk' = [wk EXCEPT ![w] = EnterAddSequence]
    /\ UNCHANGED <<incLog, adoptVars, inputVars, callVars, tableVars, phase, inited, allocd,
                   countNext, masked, histVars>>

NextPar ==
    \/ AddKmerCount
    \/ InitOffsets
    \/ InitMemory
    \/ \E m \in Kmers : Mask(m)
    \/ \E w \in FillWorkers : ParScan(w)
    \/ \E w \in FillWorkers : ParSort(w)
    \/ \E w \in FillWorkers : ParWrite(w)
    \/ \E w \in FillWorkers : ParReturn(w)
    \/ RevertPointer

SpecPar == InitPar /\ [][NextPar]_vars

\* ------------------------------------------------------------------------
\* The counting pass run by concurrent workers
\* ------------------------------------------------------------------------

\* Every sequence is counted by one call of addKmerCount, and the calls of
\* different sequences run concurrently (a worker that counts its sequences
\* one after the other is the interleaving that finishes one call before it
\* starts the next).  wk[id] holds the locals of the call for sequence id.
CallNotStarted ==
    [pc |-> "todo", buffer |-> <<>>, i |-> 1, prevKmerIdx |-> UINT_MAX,
     countUniqKmer |-> 0]

InitCount ==
    /\ seqs \in SeqTuples(NumSeqs, MaxTotalLen)
    /\ threshold \in Thresholds
    /\ offsets = ZeroOffsets
    /\ entries = <<>>
    /\ tableEntriesNum = 0
    /\ size = 0
    /\ phase = "count"
    /\ inited = FALSE
    /\ allocd = FALSE
    /\ countNext = 0
    /\ fillNext = [w \in Workers |-> 0]
    /\ masked = {}
    /\ counted = ZeroOffsets
    /\ startOffs = ZeroOffsets
    /\ cntRet = [id \in SeqIds |-> 0]
    /\ fillLog = {}
    /\ wk = [id \in SeqIds |-> CallNotStarted]
    /\ incLog = [c \in SeqIds \X Kmers |-> 0]
    /\ tbl = NoTables
    /\ heap = NoHeap
    /\ freeLog = NoFrees
    /\ call = NoCall

\* lines 134-155: the cursor loop and the sort touch only the worker's own
\* buffer
CountEnter(id) ==
    /\ wk[id].pc = "todo"
    /\ wk' = [wk EXCEPT ![id].pc = "walk",
                        ![id].buffer =
                            SortKmerIdx(CountScan(SeqOf(seqs, id), 0, threshold, <<>>))]
    /\ UNCHANGED <<incLog, adoptVars, inputVars, callVars, tableVars, buildVars, histVars>>

\* lines 156-165, one iteration of the walk: __sync_fetch_and_add is one
\* atomic step on the shared cell
CountInc(id) ==
    /\ wk[id].pc = "walk"
    /\ wk[id].i <= Len(wk[id].buffer)
    /\ LET kmerIdx == wk[id].buffer[wk[id].i] IN
         IF CountsKmer(wk[id].prevKmerIdx, kmerIdx)
         THEN /\ offsets' = [offsets EXCEPT ![kmerIdx] = @ + 1]
              /\ incLog' = [incLog EXCEPT ![<<id, kmerIdx>>] = @ + 1]
              /\ wk' = [wk EXCEPT ![id].i = @ + 1,
                                  ![id].prevKmerIdx = kmerIdx,
                                  ![id].countUniqKmer = @ + 1]
         ELSE /\ wk' = [wk EXCEPT ![id].i = @ + 1, ![id].prevKmerIdx = kmerIdx]
              /\ UNCHANGED <<offsets, incLog>>
    /\ UNCHANGED <<adoptVars, inputVars, callVars, entries, tableEntriesNum, size, buildVars,
                   histVars>>

\* line 166: return countUniqKmer
CountReturn(id) ==
    /\ wk[id].pc = "walk"
    /\ wk[id].i > Len(wk[id].buffer)
    /\ wk' = [wk EXCEPT ![id].pc = "done"]
    /\ cntRet' = [cntRet EXCEPT ![id] = wk[id].countUniqKmer]
    /\ countNext' = countNext + 1
    /\ UNCHANGED <<incLog, adoptVars, inputVars, callVars, tableVars, phase, inited, allocd,
                   fillNext, masked, counted, startOffs, fillLog>>

NextCount ==
    \/ \E id \in SeqIds : CountEnter(id)
    \/ \E id \in SeqIds : CountInc(id)
    \/ \E id \in SeqIds : CountReturn(id)

SpecCount == InitCount /\ [][NextCount]_vars

\* ------------------------------------------------------------------------
\* Adoption of external buffers and ownership of the buffers
\* ------------------------------------------------------------------------

\* Two IndexTable objects: table 1 is constructed with externalData = false
\* and built; table 2 is constructed with either flag and may be bound to
\* the buffers of table 1 (getEntries(), getOffsets()).  A pointer is NULL
\* or the name of a buffer of the heap.
Builder == 1
Adopter == 2
TableIds == {Builder, Adopter}
NULL == <<"NULL", 0>>

\* the buffer new[] returns to table t: its offsets (constructor) and its
\* entries (initMemory)
OffsetsBufferOf(t) == <<"offsets", t>>
EntriesBufferOf(t) == <<"entries", t>>
Buffers == {OffsetsBufferOf(t) : t \in TableIds} \cup {EntriesBufferOf(t) : t \in TableIds}

NoObject ==
    [state |-> "none", externalData |-> FALSE, tableEntriesNum |-> 0, size |-> 0,
     entries |-> NULL, offsets |-> NULL, adoptedFrom |-> 0, nullWritten |-> FALSE]

\* the process runs: no constructor has ended it
Running == \A t \in TableIds : tbl[t].state \notin {"segv", "fatal"}

\* the whole build of a table over database db: every sequence counted,
\* initMemory with the sum of the counts, init, every sequence added with
\* the full window, revertPointer
RECURSIVE CountAll(_, _, _, _, _)
CountAll(offs, db, id, thr, total) ==
    IF id >= Len(db) THEN [offsets |-> offs, total |-> total]
    ELSE LET r == addKmerCount(offs, SeqOf(db, id), thr)
         IN  CountAll(r.offsets, db, id + 1, thr, total + r.ret)

RECURSIVE FillAll(_, _, _, _, _)
FillAll(offs, ents, db, id, thr) ==
    IF id >= Len(db) THEN [offsets |-> offs, entries |-> ents]
    ELSE LET r == addSequence(offs, ents, SeqOf(db, id), id, 0, tableSize, thr)
         IN  FillAll(r.offsets, r.entries, db, id + 1, thr)

BuildTable(offs, db, thr) ==
    LET c == CountAll(offs, db, 0, thr, 0)
        f == FillAll(init(c.offsets), initMemory(c.total), db, 0, thr)
    IN  [offsets |-> revertPointer(f.offsets), entries |-> f.entries,
         tableEntriesNum |-> c.total, size |-> Len(db)]

InitAdopt ==
    /\ seqs \in SeqTuples(NumSeqs, MaxTotalLen)
    /\ threshold = 0
    /\ offsets = ZeroOffsets
    /\ entries = <<>>
    /\ tableEntriesNum = 0
    /\ size = 0
    /\ phase = "count"
    /\ inited = FALSE
    /\ allocd = FALSE
    /\ countNext = 0
    /\ fillNext = [w \in Workers |-> 0]
    /\ masked = {}
    /\ counted = ZeroOffsets
    /\ startOffs = ZeroOffsets
    /\ cntRet = [id \in SeqIds |-> 0]
    /\ fillLog = {}
    /\ wk = NoWorkers
    /\ incLog = NoIncs
    /\ tbl = [t \in TableIds |-> NoObject]
    /\ heap = [b \in Buffers |-> [state |-> "unalloc", by |-> 0, data |-> <<>>]]
    /\ freeLog = NoFrees
    /\ call = NoCall

\* lines 63-72: IndexTable(alphabetSize, kmerSize, externalData); only a
\* table with externalData = false allocates (and zeroes) its offsets
Construct(t, externalData) ==
    /\ Running
    /\ tbl[t].state = "none"
    /\ t = Builder => externalData = FALSE
    /\ tbl' = [tbl EXCEPT ![t] =
                  [NoObject EXCEPT !.state = "alive",
                                   !.externalData = externalData,
                                   !.offsets = IF externalData = FALSE
                                               THEN OffsetsBufferOf(t) ELSE NULL]]
    /\ heap' = IF externalData = FALSE
               THEN [heap EXCEPT ![OffsetsBufferOf(t)] =
                        [state |-> "live", by |-> t, data |-> ZeroOffsets]]
               ELSE heap
    /\ UNCHANGED <<freeLog, parVars, inputVars, callVars, tableVars, buildVars, histVars>>

\* line 68 with offsets == NULL: memset writes through the null pointer,
\* which is undefined; the process dies in the write ("segv") or survives it
\* and goes on to line 69
MemsetNullOutcomes == {"segv", "survived"}

\* lines 66-70 when new(std::nothrow) returns NULL: memset(offsets, 0, ...)
\* runs on the null pointer before Util::checkAllocation tests it; if the
\* write is survived, checkAllocation reports the failure and exits
ConstructAllocFails(t) ==
    /\ Running
    /\ tbl[t].state = "none"
    /\ \E memset \in MemsetNullOutcomes :
          tbl' = [tbl EXCEPT ![t] =
                     [NoObject EXCEPT !.state = IF memset = "segv" THEN "segv" ELSE "fatal",
                                      !.nullWritten = TRUE]]
    /\ UNCHANGED <<heap, freeLog, parVars, inputVars, callVars, tableVars, buildVars, histVars>>

\* the builder's table is built from the database; initMemory allocates its
\* entries
Build ==
    /\ Running
    /\ tbl[Builder].state = "alive"
    /\ tbl[Builder].offsets = OffsetsBufferOf(Builder)
    /\ tbl[Builder].entries = NULL
    /\ heap[OffsetsBufferOf(Builder)].state = "live"
    /\ heap[EntriesBufferOf(Builder)].state = "unalloc"
    /\ LET b == BuildTable(heap[OffsetsBufferOf(Builder)].data, seqs, threshold) IN
         /\ heap' = [heap EXCEPT
                        ![OffsetsBufferOf(Builder)].data = b.offsets,
                        ![EntriesBufferOf(Builder)] =
                            [state |-> "live", by |-> Builder, data |-> b.entries]]
         /\ tbl' = [tbl EXCEPT ![Builder].entries = EntriesBufferOf(Builder),
                               ![Builder].tableEntriesNum = b.tableEntriesNum,
                               ![Builder].size = b.size]
    /\ UNCHANGED <<freeLog, parVars, inputVars, callVars, tableVars, buildVars, histVars>>

\* mutant of initTableByExternalData: the two counts are stored crosswise
initTableByExternalDataSwapped(tb, sequenceCount, entriesNum, entriesPtr, entryOffsets) ==
    [tb EXCEPT !.tableEntriesNum = sequenceCount,
               !.size = entriesNum,
               !.entries = entriesPtr,
               !.offsets = entryOffsets]

\* lines 217-228: initTableByExternalData(sequenceCount, tableEntriesNum,
\* entries, entryOffsets, NULL) on table object tb
initTableByExternalData(tb, sequenceCount, entriesNum, entriesPtr, entryOffsets) ==
    [tb EXCEPT !.tableEntriesNum = entriesNum,
               !.size = sequenceCount,
               !.entries = entriesPtr,
               !.offsets = entryOffsets]

\* the adopter is bound to the buffers of the built table
Adopt ==
    /\ Running
    /\ tbl[Adopter].state = "alive"
    /\ tbl[Adopter].adoptedFrom = 0
    /\ tbl[Builder].state = "alive"
    /\ tbl[Builder].entries # NULL
    /\ tbl[Builder].offsets # NULL
    /\ tbl' = [tbl EXCEPT ![Adopter] =
                  [initTableByExternalData(tbl[Adopter], tbl[Builder].size,
                                           tbl[Builder].tableEntriesNum,
                                           tbl[Builder].entries, tbl[Builder].offsets)
                   EXCEPT !.adoptedFrom = Builder]]
    /\ UNCHANGED <<heap, freeLog, parVars, inputVars, callVars, tableVars, buildVars, histVars>>

\* line 84: deleteEntries frees only when externalData == false
FreesBuffers(tb) == tb.externalData = FALSE

\* lines 83-94: the pointers deleteEntries passes to delete[]
PointersDeleted(tb) ==
    IF FreesBuffers(tb) THEN {tb.entries, tb.offsets} \ {NULL} ELSE {}

\* lines 83-94: the table object deleteEntries leaves
AfterDeleteEntries(tb) ==
    IF FreesBuffers(tb) THEN [tb EXCEPT !.entries = NULL, !.offsets = NULL] ELSE tb

\* delete[] of a set of buffers; each is logged with the object that deleted
\* it and the state it was in
Freed(h, ptrs) ==
    [b \in Buffers |-> IF b \in ptrs THEN [h[b] EXCEPT !.state = "freed"] ELSE h[b]]

FreeRecords(t, ptrs) == {[by |-> t, buf |-> b, was |-> heap[b].state] : b \in ptrs}

\* deleteEntries() on table t
DeleteEntries(t) ==
    /\ Running
    /\ tbl[t].state = "alive"
    /\ heap' = Freed(heap, PointersDeleted(tbl[t]))
    /\ freeLog' = freeLog \cup FreeRecords(t, PointersDeleted(tbl[t]))
    /\ tbl' = [tbl EXCEPT ![t] = AfterDeleteEntries(tbl[t])]
    /\ UNCHANGED <<parVars, inputVars, callVars, tableVars, buildVars, histVars>>

\* lines 74-81: ~IndexTable() calls deleteEntries(); the object is gone
Destroy(t) ==
    /\ Running
    /\ tbl[t].state = "alive"
    /\ heap' = Freed(heap, PointersDeleted(tbl[t]))
    /\ freeLog' = freeLog \cup FreeRecords(t, PointersDeleted(tbl[t]))
    /\ tbl' = [tbl EXCEPT ![t] = [AfterDeleteEntries(tbl[t]) EXCEPT !.state = "destroyed"]]
    /\ UNCHANGED <<parVars, inputVars, callVars, tableVars, buildVars, histVars>>

NextAdopt ==
    \/ \E t \in TableIds, externalData \in BOOLEAN : Construct(t, externalData)
    \/ \E t \in TableIds : ConstructAllocFails(t)
    \/ Build
    \/ Adopt
    \/ \E t \in TableIds : DeleteEntries(t)
    \/ \E t \in TableIds : Destroy(t)

SpecAdopt == InitAdopt /\ [][NextAdopt]_vars

\* ------------------------------------------------------------------------
\* The build under every kind of threshold (negative, zero, reachable,
\* unreachable), one worker with the full window, no mask
\* ------------------------------------------------------------------------

ThresholdsExact == {-1, 0, 3, 4, 5}

InitThr ==
    /\ seqs \in SeqTuples(NumSeqs, MaxTotalLen)
    /\ threshold \in ThresholdsExact
    /\ offsets = ZeroOffsets
    /\ entries = <<>>
    /\ tableEntriesNum = 0
    /\ size = 0
    /\ phase = "count"
    /\ inited = FALSE
    /\ allocd = FALSE
    /\ countNext = 0
    /\ fillNext = [w \in Workers |-> 0]
    /\ masked = {}
    /\ counted = ZeroOffsets
    /\ startOffs = ZeroOffsets
    /\ cntRet = [id \in SeqIds |-> 0]
    /\ fillLog = {}
    /\ wk = NoWorkers
    /\ incLog = NoIncs
    /\ tbl = NoTables
    /\ heap = NoHeap
    /\ freeLog = NoFrees
    /\ call = NoCall

NextThr ==
    \/ AddKmerCount
    \/ InitOffsets
    \/ InitMemory
    \/ AddSequence(1)
    \/ RevertPointer

SpecThr == InitThr /\ [][NextThr]_vars

\* ------------------------------------------------------------------------
\* The static helpers computeKmerSize and getUpperBoundAACountForKmerSize
\* ------------------------------------------------------------------------

\* A size_t value (64 bit) is written as its four decimal limbs of five
\* digits, most significant first: <<a, b, c, d>> is
\* a*10^15 + b*10^10 + c*10^5 + d.
SizeLess(x, y) ==
    \E i \in 1 .. 4 : x[i] < y[i] /\ \A j \in 1 .. (i - 1) : x[j] = y[j]

SizeLeq(x, y) == x = y \/ SizeLess(x, y)

\* SIZE_MAX = 18446744073709551615
SIZE_MAX == <<18446, 74407, 37095, 51615>>

\* line 417: 3350000000
UpperBoundK6 == <<0, 0, 33500, 0>>

\* line 419: SIZE_MAX - 1
UpperBoundK7 == <<18446, 74407, 37095, 51614>>

\* the residue counts tried: around the bound of k = 6, small, and up to
\* SIZE_MAX
AaSizes ==
    {x \in {0, 1, 18446} \X {0, 74407} \X {0, 33499, 33500, 33501, 37095}
           \X {0, 1, 51615, 99999} : SizeLeq(x, SIZE_MAX)}

\* the k-mer sizes tried
MaxKmerSizeArg == 9
KmerSizeArgs == 0 .. MaxKmerSizeArg

\* lines 414-424: the bound for k = 6 and k = 7; any other k takes the
\* default branch (error message, EXIT(EXIT_FAILURE))
getUpperBoundAACountForKmerSize(k) ==
    CASE k = 6 -> [outcome |-> "return", ret |-> UpperBoundK6]
      [] k = 7 -> [outcome |-> "return", ret |-> UpperBoundK7]
      [] OTHER -> [outcome |-> "exit", ret |-> <<>>]

\* mutant of computeKmerSize: a count equal to the bound still gets 6
computeKmerSizeInclusive(aaSize) ==
    IF SizeLeq(aaSize, getUpperBoundAACountForKmerSize(6).ret) THEN 6 ELSE 7

\* lines 409-411
computeKmerSize(aaSize) ==
    IF SizeLess(aaSize, getUpperBoundAACountForKmerSize(6).ret) THEN 6 ELSE 7

InitKmerSize ==
    /\ seqs = <<>>
    /\ threshold = 0
    /\ offsets = ZeroOffsets
    /\ entries = <<>>
    /\ tableEntriesNum = 0
    /\ size = 0
    /\ phase = "count"
    /\ inited = FALSE
    /\ allocd = FALSE
    /\ countNext = 0
    /\ fillNext = [w \in Workers |-> 0]
    /\ masked = {}
    /\ counted = ZeroOffsets
    /\ startOffs = ZeroOffsets
    /\ cntRet = [id \in SeqIds |-> 0]
    /\ fillLog = {}
    /\ wk = NoWorkers
    /\ incLog = NoIncs
    /\ tbl = NoTables
    /\ heap = NoHeap
    /\ freeLog = NoFrees
    /\ call \in [fn : {"none"}, aaSize : AaSizes, k : KmerSizeArgs,
                 outcome : {"none"}, ret : {<<>>}]

\* computeKmerSize(aaSize) is called and returns
ComputeKmerSize ==
    /\ call.fn = "none"
    /\ call' = [call EXCEPT !.fn = "computeKmerSize",
                            !.outcome = "return",
                            !.ret = computeKmerSize(call.aaSize)]
    /\ UNCHANGED <<inputVars, tableVars, buildVars, histVars, parVars, adoptVars>>

\* getUpperBoundAACountForKmerSize(k) is called and returns or exits
GetUpperBoundAACountForKmerSize ==
    /\ call.fn = "none"
    /\ call' = [call EXCEPT !.fn = "getUpperBoundAACountForKmerSize",
                            !.outcome = getUpperBoundAACountForKmerSize(call.k).outcome,
                            !.ret = getUpperBoundAACountForKmerSize(call.k).ret]
    /\ UNCHANGED <<inputVars, tableVars, buildVars, histVars, parVars, adoptVars>>

NextKmerSize ==
    \/ ComputeKmerSize
    \/ GetUpperBoundAACountForKmerSize

SpecKmerSize == InitKmerSize /\ [][NextKmerSize]_vars

\* ------------------------------------------------------------------------
\* The fill by concurrent calls whose windows overlap: one call of
\* addSequence per sequence, each with the full window [0, tableSize)
\* ------------------------------------------------------------------------

\* the locals of a call entering addSequence; slot is the cell value read for
\* entries + offsets[kmerIdx], reg the value read by offsets[kmerIdx] += 1
EnterOverlap ==
    [pc |-> "scan", p |-> 0, buffer |-> <<>>, pos |-> 1, prevKmer |-> UINT_MAX,
     slot |-> 0, reg |-> 0]

InitOverlap ==
    /\ seqs \in SeqTuples(NumSeqs, MaxTotalLen)
    /\ threshold = 0
    /\ offsets = ZeroOffsets
    /\ entries = <<>>
    /\ tableEntriesNum = 0
    /\ size = 0
    /\ phase = "count"
    /\ inited = FALSE
    /\ allocd = FALSE
    /\ countNext = 0
    /\ fillNext = [w \in Workers |-> 0]
    /\ masked = {}
    /\ counted = ZeroOffsets
    /\ startOffs = ZeroOffsets
    /\ cntRet = [id \in SeqIds |-> 0]
    /\ fillLog = {}
    /\ wk = [id \in SeqIds |-> EnterOverlap]
    /\ incLog = NoIncs
    /\ tbl = NoTables
    /\ heap = NoHeap
    /\ freeLog = NoFrees
    /\ call = NoCall

\* lines 331-353, one iteration of the cursor loop of the call for sequence id
OvScan(id) ==
    /\ phase \in {"offsets", "fill"}
    /\ wk[id].pc = "scan"
    /\ hasNextKmer(SeqOf(seqs, id), wk[id].p)
    /\ LET kmer == KmerAt(SeqOf(seqs, id), wk[id].p)
           kmerIdx == int2index(kmer, 0, kmerSize)
           keep == /\ InWindow(kmerIdx, 0, tableSize)
                   /\ ~RegionMasked(offsets, kmerIdx)
                   /\ ~FillSkipsKmer(kmer, threshold)
       IN  wk' = [wk EXCEPT ![id].p = @ + 1,
                            ![id].buffer = IF keep
                                           THEN Append(@, TmpEntry(kmerIdx, id, wk[id].p))
                                           ELSE @]
    /\ phase' = "fill"
    /\ UNCHANGED <<incLog, adoptVars, inputVars, callVars, tableVars, inited, allocd,
                   countNext, fillNext, masked, histVars>>

\* lines 355-358: the cursor loop has ended; sort, prevKmer = UINT_MAX
OvSort(id) ==
    /\ phase \in {"offsets", "fill"}
    /\ wk[id].pc = "scan"
    /\ ~hasNextKmer(SeqOf(seqs, id), wk[id].p)
    /\ wk' = [wk EXCEPT ![id].pc = "walk",
                        ![id].buffer = IF Len(@) > 1 THEN SortTmp(@) ELSE @,
                        ![id].pos = 1,
                        ![id].prevKmer = UINT_MAX]
    /\ phase' = "fill"
    /\ UNCHANGED <<incLog, adoptVars, inputVars, callVars, tableVars, inited, allocd,
                   countNext, fillNext, masked, histVars>>

\* lines 360-362: the test of the walk and, for a first occurrence, the read
\* of offsets[kmerIdx] that gives the slot (entries + offsets[kmerIdx])
OvLoadSlot(id) ==
    /\ phase = "fill"
    /\ wk[id].pc = "walk"
    /\ wk[id].pos <= Len(wk[id].buffer)
    /\ LET tmp == wk[id].buffer[wk[id].pos] IN
         wk' = IF WritesKmer(tmp.kmer, wk[id].prevKmer)
               THEN [wk EXCEPT ![id].pc = "store", ![id].slot = offsets[tmp.kmer]]
               ELSE [wk EXCEPT ![id].pos = @ + 1, ![id].prevKmer = tmp.kmer]
    /\ UNCHANGED <<incLog, adoptVars, inputVars, callVars, tableVars, buildVars, histVars>>

\* lines 363-364: the posting is stored in the slot read before
OvStore(id) ==
    /\ phase = "fill"
    /\ wk[id].pc = "store"
    /\ LET tmp == wk[id].buffer[wk[id].pos] IN
         /\ entries' = StoreEntry(entries, wk[id].slot, Posting(tmp))
         /\ fillLog' = fillLog \cup {WriteRecord(tmp, wk[id].slot)}
    /\ wk' = [wk EXCEPT ![id].pc = "incload"]
    /\ UNCHANGED <<incLog, adoptVars, inputVars, callVars, offsets, tableEntriesNum, size,
                   buildVars, counted, startOffs, cntRet>>

\* line 366, offsets[kmerIdx] += 1, its read: a plain (non-atomic) read of
\* the cell, or the value already read for the slot kept in a register
OvIncLoad(id) ==
    /\ phase = "fill"
    /\ wk[id].pc = "incload"
    /\ \E v \in {offsets[wk[id].buffer[wk[id].pos].kmer], wk[id].slot} :
          wk' = [wk EXCEPT ![id].pc = "incstore", ![id].reg = v]
    /\ UNCHANGED <<incLog, adoptVars, inputVars, callVars, tableVars, buildVars, histVars>>

\* line 366, offsets[kmerIdx] += 1, its write; line 368: prevKmer = kmerIdx
OvIncStore(id) ==
    /\ phase = "fill"
    /\ wk[id].pc = "incstore"
    /\ LET tmp == wk[id].buffer[wk[id].pos] IN
         /\ offsets' = [offsets EXCEPT ![tmp.kmer] = wk[id].reg + 1]
         /\ wk' = [wk EXCEPT ![id].pc = "walk", ![id].pos = @ + 1,
                             ![id].prevKmer = tmp.kmer]
    /\ UNCHANGED <<incLog, adoptVars, inputVars, callVars, entries, tableEntriesNum, size,
                   buildVars, histVars>>

\* line 370: the walk has ended, the call returns
OvReturn(id) ==
    /\ phase = "fill"
    /\ wk[id].pc = "walk"
    /\ wk[id].pos > Len(wk[id].buffer)
    /\ wk' = [wk EXCEPT ![id].pc = "done"]
    /\ UNCHANGED <<incLog, adoptVars, inputVars, callVars, tableVars, buildVars, histVars>>

NextOverlap ==
    \/ AddKmerCount
    \/ InitOffsets
    \/ InitMemory
    \/ \E id \in SeqIds : OvScan(id)
    \/ \E id \in SeqIds : OvSort(id)
    \/ \E id \in SeqIds : OvLoadSlot(id)
    \/ \E id \in SeqIds : OvStore(id)
    \/ \E id \in SeqIds : OvIncLoad(id)
    \/ \E id \in SeqIds : OvIncStore(id)
    \/ \E id \in SeqIds : OvReturn(id)

SpecOverlap == InitOverlap /\ [][NextOverlap]_vars

\* ------------------------------------------------------------------------
\* printStatistics (lines 237-279): one scan over the buckets of a built table
\* ------------------------------------------------------------------------

top_N == 10

\* largest bucket of the tables the scan is applied to
MaxBucketSize == 3

BucketSizes == [Kmers -> 0 .. MaxBucketSize]

\* the offsets of a built table whose bucket k has sizes[k] postings (the
\* read view of init() / revertPointer(): offsets[k] = sum of the sizes below k)
OffsetsOfSizes(sizes) ==
    [i \in 0 .. tableSize |-> SumOver(sizes, {k \in Kmers : k < i})]

\* line 239 declares the array on the stack and lines 240-242 zero the member
\* first only: second keeps whatever the stack held
StackValues == {0, tableSize - 1, UINT_MAX}

InitialTopElements(stack) ==
    [j \in 0 .. top_N - 1 |-> [first |-> 0, second |-> stack]]

\* lines 256-262: the first slot whose retained size is smaller than size,
\* top_N when the loop ends without one
RECURSIVE FirstSmallerSlot(_, _, _)
FirstSmallerSlot(topElements, bucketSize, j) ==
    IF j >= top_N THEN top_N
    ELSE IF topElements[j].first < bucketSize THEN j
    ELSE FirstSmallerSlot(topElements, bucketSize, j + 1)

\* lines 247-262: the loop body for bucket i
ScanBucket(loc, offs, i) ==
    LET bucketSize == offs[i + 1] - offs[i]
        stats == [loc EXCEPT
                    !.minKmer = IF bucketSize < @ THEN bucketSize ELSE @,
                    !.entrySize = @ + bucketSize,
                    !.emptyKmer = IF bucketSize = 0 THEN @ + 1 ELSE @]
        j == FirstSmallerSlot(loc.topElements, bucketSize, 0)
    IN  IF bucketSize < loc.topElements[top_N - 1].first THEN stats
        ELSE IF j < top_N
             THEN [stats EXCEPT !.topElements[j] =
                                    [first |-> bucketSize, second |-> i]]
             ELSE stats

RECURSIVE ScanLoop(_, _, _)
ScanLoop(loc, offs, i) ==
    IF i >= tableSize THEN loc
    ELSE ScanLoop(ScanBucket(loc, offs, i), offs, i + 1)

\* lines 238-263: the locals when the scan has ended
printStatistics(offs, stack) ==
    ScanLoop([topElements |-> InitialTopElements(stack),
              entrySize |-> 0, minKmer |-> 0, emptyKmer |-> 0], offs, 0)

InitStats ==
    /\ seqs = <<>>
    /\ threshold = 0
    /\ \E sizes \in BucketSizes :
         /\ offsets = OffsetsOfSizes(sizes)
         /\ tableEntriesNum = offsets[tableSize]
    /\ entries = <<>>
    /\ size = 0
    /\ phase = "ready"
    /\ inited = TRUE
    /\ allocd = TRUE
    /\ countNext = 0
    /\ fillNext = [w \in Workers |-> 0]
    /\ masked = {}
    /\ counted = ZeroOffsets
    /\ startOffs = ZeroOffsets
    /\ cntRet = [id \in SeqIds |-> 0]
    /\ fillLog = {}
    /\ wk = NoWorkers
    /\ incLog = NoIncs
    /\ tbl = NoTables
    /\ heap = NoHeap
    /\ freeLog = NoFrees
    /\ call \in [fn : {"none"}, stack : StackValues, loc : {<<>>}]

\* printStatistics() runs its scan over the table
PrintStatistics ==
    /\ call.fn = "none"
    /\ call' = [call EXCEPT !.fn = "printStatistics",
                            !.loc = printStatistics(offsets, call.stack)]
    /\ UNCHANGED <<inputVars, tableVars, buildVars, histVars, parVars, adoptVars>>

NextStats ==
    \/ PrintStatistics

SpecStats == InitStats /\ [][NextStats]_vars

\* ------------------------------------------------------------------------
\* The concurrent fill of a table that was never masked
\* ------------------------------------------------------------------------

\* the build of SpecPar in which no caller zeroes a bucket between init()
\* and the fill: counting, init(), initMemory(), the workers, revertPointer()
NextFill ==
    \/ AddKmerCount
    \/ InitOffsets
    \/ InitMemory
    \/ \E w \in FillWorkers : ParScan(w)
    \/ \E w \in FillWorkers : ParSort(w)
    \/ \E w \in FillWorkers : ParWrite(w)
    \/ \E w \in FillWorkers : ParReturn(w)
    \/ RevertPointer

SpecFill == InitPar /\ [][NextFill]_vars

\* ------------------------------------------------------------------------
\* assembleresult.cpp: selectBestExtentionFragment (lines 31-47)
\* ------------------------------------------------------------------------

\* the sequence database the assembly reads: keys and residue counts
DbKeys == 0 .. 2
SeqLenOf(key) == IF key = 2 THEN 3 ELSE 2

\* longest alignment list read for a query
MaxAlignments == 3

\* Matcher::result_t, the fields the assembly reads: an alignment of the
\* query with sequence dbKey that starts at qStartPos in the query and at
\* dbStartPos in the target (here: at the first or at the last residue)
ResultsFor(queryKey) ==
    UNION {[dbKey : {key}, qStartPos : {0, SeqLenOf(queryKey) - 1},
            dbStartPos : {0, SeqLenOf(key) - 1}] : key \in DbKeys}

RECURSIVE ListsOver(_, _)
ListsOver(S, n) ==
    IF n = 0 THEN {<<>>}
    ELSE LET shorter == ListsOver(S, n - 1)
         IN  shorter \cup {Append(l, x) : l \in {m \in shorter : Len(m) = n - 1}, x \in S}

\* the lists Matcher::readAlignmentResults can deliver for a query
AlignmentLists(queryKey) == ListsOver(ResultsFor(queryKey), MaxAlignments)

\* line 46: the result that stands for "no fragment"
NoFragment == [dbKey |-> UINT_MAX, qStartPos |-> 0, dbStartPos |-> 0]

\* mutant of AcceptsFragment: an alignment of the query with itself is accepted
AcceptsFragmentAlsoSelf(r, prevFound, queryKey) ==
    IF r.dbKey \in prevFound THEN FALSE
    ELSE r.dbStartPos = 0 \/ r.qStartPos = 0

\* lines 37-40: the tests an alignment has to pass
AcceptsFragment(r, prevFound, queryKey) ==
    IF r.dbKey \in prevFound THEN FALSE
    ELSE (r.dbStartPos = 0 \/ r.qStartPos = 0) /\ r.dbKey # queryKey

\* lines 36-46: the loop from index i (1-based here) on
RECURSIVE SelectLoop(_, _, _, _)
SelectLoop(alignments, prevFound, queryKey, i) ==
    IF i > Len(alignments) THEN NoFragment
    ELSE IF AcceptsFragment(alignments[i], prevFound, queryKey) THEN alignments[i]
    ELSE SelectLoop(alignments, prevFound, queryKey, i + 1)

\* lines 31-47.  alignments is a by-value parameter, a copy that dies with
\* the call; prevFound is a reference parameter: its value at the return is
\* part of the outcome
selectBestExtentionFragment(alignments, prevFound, queryKey) ==
    [ret |-> SelectLoop(alignments, prevFound, queryKey, 1),
     prevFound |-> prevFound]

InitSelect ==
    /\ seqs = <<>>
    /\ threshold = 0
    /\ offsets = ZeroOffsets
    /\ entries = <<>>
    /\ tableEntriesNum = 0
    /\ size = 0
    /\ phase = "count"
    /\ inited = FALSE
    /\ allocd = FALSE
    /\ countNext = 0
    /\ fillNext = [w \in Workers |-> 0]
    /\ masked = {}
    /\ counted = ZeroOffsets
    /\ startOffs = ZeroOffsets
    /\ cntRet = [id \in SeqIds |-> 0]
    /\ fillLog = {}
    /\ wk = NoWorkers
    /\ incLog = NoIncs
    /\ tbl = NoTables
    /\ heap = NoHeap
    /\ freeLog = NoFrees
    /\ \E queryKey \in DbKeys, prevFound \in SUBSET DbKeys :
         \E alignments \in AlignmentLists(queryKey) :
           call = [fn |-> "none", queryKey |-> queryKey,
                   alignments |-> alignments, prevFound |-> prevFound,
                   ret |-> <<>>, callerAlignments |-> alignments,
                   callerPrevFound |-> prevFound]

\* the caller holds alignments and prevFound, calls the function and gets
\* the result; callerAlignments / callerPrevFound are the caller's objects
\* after the call (the list was copied, the set was passed by reference)
SelectBestExtentionFragment ==
    /\ call.fn = "none"
    /\ LET r == selectBestExtentionFragment(call.alignments, call.prevFound,
                                            call.queryKey)
       IN  call' = [call EXCEPT !.fn = "selectBestExtentionFragment",
                                !.ret = r.ret,
                                !.callerPrevFound = r.prevFound]
    /\ UNCHANGED <<inputVars, tableVars, buildVars, histVars, parVars, adoptVars>>

NextSelect ==
    \/ SelectBestExtentionFragment

SpecSelect == InitSelect /\ [][NextSelect]_vars

\* ------------------------------------------------------------------------
\* assembleresult.cpp: doassembly, the extension of one query (lines 88-145)
\* ------------------------------------------------------------------------

\* DBReader::getData / getDataByDBKey: the residues of sequence key; a
\* residue is named by the sequence it comes from and its position in it.
\* The stored record ends with "\n\0", which getSeqLens counts.
DbData(key) == [p \in 1 .. SeqLenOf(key) |-> <<key, p - 1>>]
getSeqLens(key) == SeqLenOf(key) + 2

Abs(x) == IF x < 0 THEN 0 - x ELSE x
Max(x, y) == IF x > y THEN x ELSE y
Min(x, y) == IF x < y THEN x ELSE y

\* line 108
Diagonal(queryOffset, hit) == (queryOffset + hit.qStartPos) - hit.dbStartPos

\* line 109
Dist(diagonal) == Max(Abs(diagonal) - 1, 0)

\* lines 111 and 119
DiagonalLen(diagonal, targetL, queryL) ==
    IF diagonal >= 0 THEN Min(targetL, queryL - Abs(diagonal))
    ELSE Min(targetL - Abs(diagonal), queryL)

\* DistanceCalculator::computeSubstituionStartEndDistance over diagonalLen
\* residue pairs: some segment startPos <= endPos of the diagonal
LocalAlignments(diagonalLen) ==
    {a \in [startPos : 0 .. Max(diagonalLen, 1) - 1,
            endPos : 0 .. Max(diagonalLen, 1) - 1] : a.startPos <= a.endPos}

\* lines 110-127: the positions of the segment in the query and the target
SegmentPositions(diagonal, alignment) ==
    IF diagonal >= 0
    THEN [qStartPos |-> alignment.startPos + Dist(diagonal),
          qEndPos |-> alignment.endPos + Dist(diagonal),
          dbStartPos |-> alignment.startPos,
          dbEndPos |-> alignment.endPos]
    ELSE [qStartPos |-> alignment.startPos,
          qEndPos |-> alignment.endPos,
          dbStartPos |-> alignment.startPos + Dist(diagonal),
          dbEndPos |-> alignment.endPos + Dist(diagonal)]

\* std::string(data + from, n) with n a size_t: a negative length wraps to a
\* value above max_size() and the constructor throws std::length_error
StringOf(data, from, n) ==
    IF n < 0 THEN [outcome |-> "length_error", str |-> <<>>]
    ELSE [outcome |-> "ok", str |-> SubSeq(data, from + 1, from + n)]

\* lines 133-143: the query and queryOffset after the extension by the
\* target dbSeq of targetL residues
Extend(query, queryOffset, dbSeq, targetL, pos) ==
    IF pos.dbStartPos = 0
    THEN LET fragment == StringOf(dbSeq, pos.dbEndPos + 1, (targetL - pos.dbEndPos) - 1)
         IN  [outcome |-> fragment.outcome,
              query |-> query \o fragment.str,
              queryOffset |-> queryOffset]
    ELSE IF pos.qStartPos = 0
    THEN LET fragment == StringOf(dbSeq, 0, pos.dbStartPos + 1)
         IN  [outcome |-> fragment.outcome,
              query |-> fragment.str \o query,
              queryOffset |-> queryOffset + pos.dbStartPos]
    ELSE [outcome |-> "ok", query |-> query, queryOffset |-> queryOffset]

\* mutant of MarkFound: the target is not recorded
MarkFoundNever(prevFound, dbKey) == prevFound

\* line 104
MarkFound(prevFound, dbKey) == prevFound \cup {dbKey}

InitAssembly ==
    /\ seqs = <<>>
    /\ threshold = 0
    /\ offsets = ZeroOffsets
    /\ entries = <<>>
    /\ tableEntriesNum = 0
    /\ size = 0
    /\ phase = "count"
    /\ inited = FALSE
    /\ allocd = FALSE
    /\ countNext = 0
    /\ fillNext = [w \in Workers |-> 0]
    /\ masked = {}
    /\ counted = ZeroOffsets
    /\ startOffs = ZeroOffsets
    /\ cntRet = [id \in SeqIds |-> 0]
    /\ fillLog = {}
    /\ wk = NoWorkers
    /\ incLog = NoIncs
    /\ tbl = NoTables
    /\ heap = NoHeap
    /\ freeLog = NoFrees
    /\ \E queryKey \in DbKeys : \E alnData \in AlignmentLists(queryKey) :
         call = [fn |-> "doassembly", pc |-> "start",
                 queryKey |-> queryKey, alnData |-> alnData,
                 alignments |-> <<>>, query |-> <<>>, queryOffset |-> 0,
                 prevFound |-> {}, alnIdx |-> 0,
                 hits |-> <<>>, lens |-> <<>>, written |-> <<>>]

\* lines 88-96: the locals of the query are set up.  alnData is what the
\* alignment database holds for the query key.
ReadQuery ==
    /\ call.fn = "doassembly"
    /\ call.pc = "start"
    /\ call' = [call EXCEPT
                  !.pc = "loop",
                  !.query = SubSeq(DbData(call.queryKey), 1,
                                   getSeqLens(call.queryKey) - 2),
                  !.queryOffset = 0,
                  !.alignments = call.alnData,
                  !.prevFound = {},
                  !.alnIdx = 0,
                  !.lens = <<getSeqLens(call.queryKey) - 2>>]
    /\ UNCHANGED <<inputVars, tableVars, buildVars, histVars, parVars, adoptVars>>

\* lines 96-103: an iteration that finds no fragment.  hits records the dbKey
\* each iteration selected, lens the length of the query after it.
IterateNoFragment ==
    /\ call.fn = "doassembly"
    /\ call.pc = "loop"
    /\ call.alnIdx < Len(call.alignments)
    /\ LET sel == selectBestExtentionFragment(call.alignments, call.prevFound,
                                              call.queryKey)
       IN  /\ sel.ret.dbKey = UINT_MAX
           /\ call' = [call EXCEPT !.alnIdx = @ + 1,
                                   !.prevFound = sel.prevFound,
                                   !.hits = Append(@, sel.ret.dbKey),
                                   !.lens = Append(@, Len(call.query))]
    /\ UNCHANGED <<inputVars, tableVars, buildVars, histVars, parVars, adoptVars>>

\* lines 96-144: an iteration that extends the query by the selected target
IterateExtend ==
    /\ call.fn = "doassembly"
    /\ call.pc = "loop"
    /\ call.alnIdx < Len(call.alignments)
    /\ LET sel == selectBestExtentionFragment(call.alignments, call.prevFound,
                                              call.queryKey)
           besttHitToExtend == sel.ret
           targetL == SeqLenOf(besttHitToExtend.dbKey)
           diagonal == Diagonal(call.queryOffset, besttHitToExtend)
           diagonalLen == DiagonalLen(diagonal, targetL, Len(call.query))
       IN  /\ besttHitToExtend.dbKey # UINT_MAX
           /\ \E alignment \in LocalAlignments(diagonalLen) :
                LET ext == Extend(call.query, call.queryOffset,
                                  DbData(besttHitToExtend.dbKey), targetL,
                                  SegmentPositions(diagonal, alignment))
                IN  call' = [call EXCEPT
                               !.pc = IF ext.outcome = "ok" THEN "loop" ELSE "terminated",
                               !.alnIdx = @ + 1,
                               !.prevFound = MarkFound(sel.prevFound, besttHitToExtend.dbKey),
                               !.query = ext.query,
                               !.queryOffset = ext.queryOffset,
                               !.hits = Append(@, besttHitToExtend.dbKey),
                               !.lens = Append(@, Len(ext.query))]
    /\ UNCHANGED <<inputVars, tableVars, buildVars, histVars, parVars, adoptVars>>

\* line 145: the loop has ended, the query is written under its key
WriteResult ==
    /\ call.fn = "doassembly"
    /\ call.pc = "loop"
    /\ call.alnIdx >= Len(call.alignments)
    /\ call' = [call EXCEPT !.pc = "done",
                            !.written = Append(@, [key |-> call.queryKey,
                                                   data |-> call.query])]
    /\ UNCHANGED <<inputVars, tableVars, buildVars, histVars, parVars, adoptVars>>

NextAssembly ==
    \/ ReadQuery
    \/ IterateNoFragment
    \/ IterateExtend
    \/ WriteResult

SpecAssembly == InitAssembly /\ [][NextAssembly]_vars

\* ------------------------------------------------------------------------
\* Vocabulary of the properties
\* ------------------------------------------------------------------------

\* k-mer index i occurs in sequence s at cursor position p and is admitted
\* under threshold t (stated from the contract, not from the code paths)
OccursAt(s, i, p, t) ==
    /\ p \in KmerPositions(s)
    /\ int2index(KmerAt(s, p), 0, kmerSize) = i
    /\ (t > 0 => kmerScore(KmerAt(s, p), 0) >= t)

Occurs(s, i, t) == \E p \in KmerPositions(s) : OccursAt(s, i, p, t)

\* the ids of the sequences in which k-mer i occurs
Holders(i) == {id \in SeqIds : Occurs(SeqOf(seqs, id), i, threshold)}

\* the postings a lookup of k-mer i returns in the current state
Bucket(i) == getDBSeqList(offsets, entries, i)

\* the posting writes of the fill pass made for sequence id
WritesOf(id) == {r \in fillLog : r.seqId = id}

\* a single-threaded fill: the sequences in id order with the full window,
\* then revertPointer()
RECURSIVE SequentialFill(_, _, _)
SequentialFill(offs, ents, id) ==
    IF id >= NumSeqs THEN [offsets |-> revertPointer(offs), entries |-> ents]
    ELSE LET r == addSequence(offs, ents, SeqOf(seqs, id), id, 0, tableSize, threshold)
         IN  SequentialFill(r.offsets, r.entries, id + 1)

\* the same build without a mask: from the offsets init() left
UnmaskedBuild == SequentialFill(startOffs, initMemory(tableEntriesNum), 0)

\* the offsets the fill of this build started from: those init() left, with
\* the mask applied
PreFillOffsets ==
    [i \in 0 .. tableSize |-> IF i \in masked THEN startOffs[i + 1] ELSE startOffs[i]]

\* the single-threaded fill of this build
SingleThreadedBuild == SequentialFill(PreFillOffsets, initMemory(tableEntriesNum), 0)

\* the postings of a list as a multiset (posting -> number of copies)
BagOf(list) ==
    [x \in {list[j] : j \in DOMAIN list} |-> Cardinality({j \in DOMAIN list : list[j] = x})]

\* ------------------------------------------------------------------------
\* C1..C3, C6..C8: the build call by call (specification Spec)
\* ------------------------------------------------------------------------

\* C1: after a complete unmasked build, the bucket of every k-mer i holds
\* exactly one posting for each sequence in which i occurs (and passes the
\* filter) and no other posting; the posting names a position of that
\* sequence at which i occurs.
C1_OnePostingPerSequence ==
    (phase = "ready" /\ masked = {}) =>
        \A i \in Kmers :
            /\ getDBSeqListSize(offsets, i) = Cardinality(Holders(i))
            /\ \A id \in Holders(i) :
                   Cardinality({j \in DOMAIN Bucket(i) : Bucket(i)[j].seqId = id}) = 1
            /\ \A j \in DOMAIN Bucket(i) :
                   /\ Bucket(i)[j].seqId \in Holders(i)
                   /\ OccursAt(SeqOf(seqs, Bucket(i)[j].seqId), i,
                               Bucket(i)[j].position_j, threshold)

\* a complete unmasked build in which some k-mer occurs twice inside one
\* sequence and also in another sequence, and has exactly two postings
C1_Witness ==
    /\ phase = "ready"
    /\ masked = {}
    /\ \E i \in Kmers :
          /\ Cardinality(Holders(i)) = 2
          /\ getDBSeqListSize(offsets, i) = 2
          /\ \E id \in SeqIds :
                Cardinality({p \in KmerPositions(SeqOf(seqs, id)) :
                                OccursAt(SeqOf(seqs, id), i, p, threshold)}) >= 2

\* C2 (as claimed): once bucket m is masked, no posting is ever written for
\* k-mer m, and after revertPointer() the lookup of m has length 0.
C2_MaskHonored ==
    \A m \in masked :
        /\ \A r \in fillLog : r.kmer # m
        /\ phase = "ready" => getDBSeqListSize(offsets, m) = 0

\* C3 (as claimed): after fill and revertPointer() of a build with bucket m
\* masked, every other bucket has the start offset, the length and the
\* postings it has in the build of the same sequences without the mask.
C3_MaskLeavesOthers ==
    (phase = "ready") =>
        \A m \in masked : \A i \in Kmers \ {m} :
            /\ offsets[i] = UnmaskedBuild.offsets[i]
            /\ getDBSeqListSize(offsets, i) = getDBSeqListSize(UnmaskedBuild.offsets, i)
            /\ Bucket(i) = getDBSeqList(UnmaskedBuild.offsets, UnmaskedBuild.entries, i)

\* C6: after init(), offsets[0] = 0, the offsets are non-decreasing and cell
\* i+1 exceeds cell i by the count cell i held before init().
C6_MonotoneOffsets ==
    inited =>
        /\ startOffs[0] = 0
        /\ \A i \in Kmers :
              /\ startOffs[i] <= startOffs[i + 1]
              /\ startOffs[i + 1] - startOffs[i] = counted[i]

\* init() has run on counts among which one is 0 and one is at least 2
C6_Witness ==
    /\ inited
    /\ offsets = startOffs
    /\ \E i \in Kmers : counted[i] = 0 /\ i + 1 \in Kmers /\ counted[i + 1] >= 1
    /\ \E i \in Kmers : counted[i] >= 2

\* the three totals of C7
TotalAfterInit == startOffs[tableSize]
TotalCounted == SumOver(cntRet, SeqIds)
TotalBucketSizes == SumOver([i \in Kmers |-> startOffs[i + 1] - startOffs[i]], Kmers)
StoreExactlyFilled ==
    /\ Cardinality(fillLog) = TotalAfterInit
    /\ {r.slot : r \in fillLog} = DOMAIN entries
    /\ \A slot \in DOMAIN entries : entries[slot] # Garbage

\* C7 (as claimed): offsets[A^k] after init() equals the sum of the counting
\* calls' return values, the sum of the bucket sizes and the number of
\* posting writes of the whole fill pass, which fills the store exactly.
C7_TotalConservation ==
    /\ inited => (TotalAfterInit = TotalCounted /\ TotalAfterInit = TotalBucketSizes)
    /\ phase = "ready" => StoreExactlyFilled

\* C7 (amended): the first two equalities hold after every init(); the
\* number of posting writes equals the total, and the store is exactly
\* filled, when no bucket was masked between init() and the fill.
C7_TotalConservationUnmasked ==
    /\ inited => (TotalAfterInit = TotalCounted /\ TotalAfterInit = TotalBucketSizes)
    /\ (phase = "ready" /\ masked = {}) => StoreExactlyFilled

\* a complete unmasked build with at least three postings
C7_Witness ==
    /\ phase = "ready"
    /\ masked = {}
    /\ TotalAfterInit >= 3
    /\ Cardinality(fillLog) = TotalAfterInit

\* C8: on an unmasked table, the number of postings addSequence writes for a
\* sequence with the full window (worker 1), or with the windows that split
\* [0, A^k) (workers 2 and 3 together), equals the return value of
\* addKmerCount for that sequence under the same threshold.
C8_CountFillParity ==
    masked = {} =>
        \A id \in SeqIds :
            /\ fillNext[1] > id => Cardinality(WritesOf(id)) = cntRet[id]
            /\ (\A w \in Workers \ {1} : fillNext[w] > id) =>
                   Cardinality(WritesOf(id)) = cntRet[id]

\* the full-window fill of a sequence with a repeated k-mer, part of whose
\* k-mers the threshold rejects, has written as many postings as counted
C8_Witness ==
    /\ masked = {}
    /\ threshold > 0
    /\ \E id \in SeqIds :
          /\ fillNext[1] > id
          /\ cntRet[id] >= 1
          /\ Cardinality(WritesOf(id)) = cntRet[id]
          /\ cntRet[id] < Cardinality(KmerPositions(SeqOf(seqs, id)))
          /\ \E p \in KmerPositions(SeqOf(seqs, id)) :
                kmerScore(KmerAt(SeqOf(seqs, id), p), 0) = threshold

\* ------------------------------------------------------------------------
\* C4: the fill by concurrent workers (specification SpecPar)
\* ------------------------------------------------------------------------

\* bucket by bucket, the lookups return the multisets of postings of the
\* single-threaded fill
SameBucketsAsSingleThreaded ==
    \A i \in Kmers :
        BagOf(Bucket(i)) =
            BagOf(getDBSeqList(SingleThreadedBuild.offsets, SingleThreadedBuild.entries, i))

\* C4 (as claimed): when the workers whose windows partition [0, A^k) have
\* run addSequence concurrently over all sequences, then for every
\* interleaving of their steps the final store holds, bucket by bucket, the
\* multiset of postings of a single-threaded fill with the full window.
C4_DisjointWindowSafety ==
    phase = "ready" => SameBucketsAsSingleThreaded

\* the part of C4 that holds: the same for every fill that starts from the
\* offsets init() left, no bucket masked
DisjointWindowSafetyUnmasked ==
    (phase = "ready" /\ masked = {}) => SameBucketsAsSingleThreaded

\* ------------------------------------------------------------------------
\* C5: the counting by concurrent workers (specification SpecCount)
\* ------------------------------------------------------------------------

\* C5: when calls of addKmerCount for different sequences run concurrently,
\* then in every interleaving a sequence never adds more than 1 to one cell,
\* every cell holds the sum of the adds made to it (none is lost), and once
\* all calls have returned cell i holds the number of sequences that contain
\* k-mer i (after filtering) and each call returned its number of distinct
\* k-mers.
C5_ConcurrentCounting ==
    /\ \A c \in SeqIds \X Kmers : incLog[c] <= 1
    /\ \A i \in Kmers :
          offsets[i] = SumOver([id \in SeqIds |-> incLog[<<id, i>>]], SeqIds)
    /\ (\A id \in SeqIds : wk[id].pc = "done") =>
          /\ \A i \in Kmers : offsets[i] = Cardinality(Holders(i))
          /\ \A id \in SeqIds :
                cntRet[id] = Cardinality({i \in Kmers : id \in Holders(i)})

\* all calls are in progress at once (none has returned), each has added to
\* a cell, one of them has met a repeated k-mer, and a cell already holds 2
C5_Witness ==
    /\ \A id \in SeqIds :
          /\ wk[id].pc = "walk"
          /\ wk[id].countUniqKmer >= 1
    /\ \E id \in SeqIds :
          \E j \in 2 .. (wk[id].i - 1) : wk[id].buffer[j] = wk[id].buffer[j - 1]
    /\ \E i \in Kmers : offsets[i] = 2

\* ------------------------------------------------------------------------
\* C9, C10: adoption and ownership (specification SpecAdopt)
\* ------------------------------------------------------------------------

\* the table the build of the database produces, computed from the database
BuiltTable == BuildTable(ZeroOffsets, seqs, threshold)

\* both pointers of table t lead to live buffers
Readable(t) ==
    /\ tbl[t].state = "alive"
    /\ tbl[t].offsets # NULL
    /\ tbl[t].entries # NULL
    /\ heap[tbl[t].offsets].state = "live"
    /\ heap[tbl[t].entries].state = "live"

\* getDBSeqList(kmer, &n) on table t: the list and its length
TableLookup(t, kmer) ==
    getDBSeqList(heap[tbl[t].offsets].data, heap[tbl[t].entries].data, kmer)

\* table t was constructed with externalData = true and bound to the buffers
\* of a completed build, and those buffers are still allocated
AdoptedExternal(t) ==
    /\ tbl[t].state = "alive"
    /\ tbl[t].externalData
    /\ tbl[t].adoptedFrom # 0
    /\ heap[OffsetsBufferOf(tbl[t].adoptedFrom)].state = "live"
    /\ heap[EntriesBufferOf(tbl[t].adoptedFrom)].state = "live"

\* C9: a table constructed with externalData = true and bound by
\* initTableByExternalData to the buffers of a completed build returns for
\* every k-mer the list (same length, same postings) the built table
\* returns, and getSize() and getTableEntriesNum() return the adopted
\* sequence count and number of entries.
C9_RoundTripViaAdoption ==
    \A t \in TableIds :
        AdoptedExternal(t) =>
            /\ Readable(t)
            /\ \A kmer \in Kmers :
                  TableLookup(t, kmer) =
                      getDBSeqList(BuiltTable.offsets, BuiltTable.entries, kmer)
            /\ tbl[t].size = BuiltTable.size
            /\ tbl[t].tableEntriesNum = BuiltTable.tableEntriesNum

\* an adopting table with externalData = true answers a lookup with a list of
\* two postings; the adopted counts differ, and deleteEntries of the built
\* table has not run
C9_Witness ==
    /\ AdoptedExternal(Adopter)
    /\ Readable(Builder)
    /\ tbl[Adopter].size # tbl[Adopter].tableEntriesNum
    /\ \E kmer \in Kmers : DOMAIN TableLookup(Adopter, kmer) = {0, 1}

\* the buffers table t allocated (constructor, initMemory)
AllocatedBy(t) == {b \in Buffers : heap[b].state # "unalloc" /\ heap[b].by = t}

\* deleteEntries or the destructor has run on table t, constructed with
\* externalData = false (its offsets pointer is non-NULL until then)
OwnerDeleted(t) ==
    /\ tbl[t].state # "none"
    /\ tbl[t].externalData = FALSE
    /\ tbl[t].offsets = NULL

\* C10: in every sequence of operations, buffers are freed by deleteEntries /
\* the destructor iff the table was constructed with externalData = false:
\* a table with externalData = true frees nothing, a table with
\* externalData = false frees the buffers it allocated, and never a buffer
\* it did not allocate itself.
C10_BufferOwnership ==
    /\ \A f \in freeLog : tbl[f.by].externalData = FALSE
    /\ \A f \in freeLog : heap[f.buf].by = f.by
    /\ \A t \in TableIds :
          OwnerDeleted(t) => \A b \in AllocatedBy(t) : heap[b].state = "freed"

\* supporting check for C10: the same statement restricted to runs in which
\* initTableByExternalData is applied only to a table with externalData = true
OwnershipWithExternalAdopter ==
    (\A t \in TableIds : tbl[t].adoptedFrom # 0 => tbl[t].externalData)
        => C10_BufferOwnership

\* supporting check for C10: no buffer is passed to delete[] twice in those
\* runs
NoDoubleFreeWithExternalAdopter ==
    (\A t \in TableIds : tbl[t].adoptedFrom # 0 => tbl[t].externalData)
        => \A f \in freeLog : f.was = "live"

\* ------------------------------------------------------------------------
\* C11: the score threshold (specification SpecThr)
\* ------------------------------------------------------------------------

\* the sum of diagonalScore over the k symbols of a k-mer
ScoreSum(kmer) ==
    SumOver([j \in 0 .. (kmerSize - 1) |-> diagonalScore[kmer[j] + 1]], 0 .. (kmerSize - 1))

\* the contract of the exact variant: with t > 0 the score must reach t
Admitted(kmer, t) == t <= 0 \/ ScoreSum(kmer) >= t

\* the cursor positions of sequence id at which k-mer i occurs and is admitted
AdmittedAt(id, i) ==
    {p \in KmerPositions(SeqOf(seqs, id)) :
        /\ int2index(KmerAt(SeqOf(seqs, id), p), 0, kmerSize) = i
        /\ Admitted(KmerAt(SeqOf(seqs, id), p), threshold)}

\* C11: with threshold t > 0 a k-mer is counted by addKmerCount and filled by
\* addSequence iff the sum of diagonalScore over its symbols is >= t, and
\* with t <= 0 every k-mer is admitted: each counting call returns the number
\* of admitted distinct k-mers of its sequence, the counts of a cell are the
\* sequences with an admitted occurrence, and the fill writes a posting for
\* (sequence, k-mer) iff the k-mer has an admitted occurrence in the sequence.
C11_ScoreThreshold ==
    /\ \A id \in SeqIds :
          countNext > id =>
              cntRet[id] = Cardinality({i \in Kmers : AdmittedAt(id, i) # {}})
    /\ countNext = NumSeqs =>
          \A i \in Kmers :
              (IF inited THEN counted[i] ELSE offsets[i]) =
                  Cardinality({id \in SeqIds : AdmittedAt(id, i) # {}})
    /\ \A id \in SeqIds :
          fillNext[1] > id =>
              \A i \in Kmers :
                  (\E r \in fillLog : r.seqId = id /\ r.kmer = i) <=> AdmittedAt(id, i) # {}

\* scores <<1, 2>>, threshold 4, sequence [1,1,0,1]: only k-mer (1,1) is
\* admitted, and the finished build holds one posting for it at position 0
C11_Witness ==
    /\ phase = "ready"
    /\ threshold = 4
    /\ \E id \in SeqIds :
          /\ SeqOf(seqs, id) = <<1, 1, 0, 1>>
          /\ cntRet[id] = 1
          /\ WritesOf(id) = {r \in fillLog : r.seqId = id /\ r.kmer = 3 /\ r.position_j = 0}
          /\ Cardinality(WritesOf(id)) = 1

\* ------------------------------------------------------------------------
\* C12: the choice of the k-mer size (specification SpecKmerSize)
\* ------------------------------------------------------------------------

\* C12: computeKmerSize(R) returns 6 for every R < 3,350,000,000 and 7 for
\* every R >= 3,350,000,000; getUpperBoundAACountForKmerSize(k) returns a
\* bound only for k = 6 and k = 7 and for any other k ends in the error exit.
C12_KmerSizeSelection ==
    /\ call.fn = "computeKmerSize" =>
          /\ call.outcome = "return"
          /\ call.ret = IF SizeLess(call.aaSize, <<0, 0, 33500, 0>>) THEN 6 ELSE 7
    /\ call.fn = "getUpperBoundAACountForKmerSize" =>
          /\ call.outcome = "return" <=> call.k \in {6, 7}
          /\ call.outcome = "exit" <=> call.k \notin {6, 7}

\* computeKmerSize has returned 7 for a count of exactly 3,350,000,000
C12_Witness ==
    /\ call.fn = "computeKmerSize"
    /\ call.aaSize = <<0, 0, 33500, 0>>
    /\ call.ret = 7

\* ------------------------------------------------------------------------
\* C13: allocation failure in the constructor (specification SpecAdopt)
\* ------------------------------------------------------------------------

\* the allocation of the offsets of table t failed
AllocationFailed(t) == tbl[t].state \in {"segv", "fatal"}

\* C13 (as claimed): when the allocation of the A^k + 1 offset cells fails,
\* construction ends in the fatal allocation-failure report, no step reads
\* or writes the unallocated buffer before that, and no partially built
\* table is observable (the object holds no buffer and the process has
\* ended).
C13_AllocationFailure ==
    \A t \in TableIds :
        AllocationFailed(t) =>
            /\ tbl[t].state = "fatal"
            /\ ~tbl[t].nullWritten
            /\ tbl[t].offsets = NULL /\ tbl[t].entries = NULL

\* supporting check for C13: after a failed allocation no operation runs on
\* any table
HaltsAfterAllocationFailure ==
    [][(\E t \in TableIds : AllocationFailed(t)) => UNCHANGED vars]_vars

\* ------------------------------------------------------------------------
\* C14: slots of concurrent writers (specification SpecOverlap)
\* ------------------------------------------------------------------------

\* C14 (as claimed): for every interleaving of fill workers, including
\* workers whose windows contain the same bucket, no two postings are
\* written to the same store slot, and when the workers have finished each
\* cursor has advanced by exactly the number of postings written for its
\* bucket.
C14_SlotUniqueness ==
    /\ \A r1, r2 \in fillLog : r1.slot = r2.slot => r1 = r2
    /\ (\A id \in SeqIds : wk[id].pc = "done") =>
          \A i \in Kmers :
              offsets[i] - startOffs[i] = Cardinality({r \in fillLog : r.kmer = i})

\* supporting check for C14 (specification SpecPar, windows that partition
\* the index range, no mask): no slot is written twice
SlotUniquenessDisjointUnmasked ==
    masked = {} => \A r1, r2 \in fillLog : r1.slot = r2.slot => r1 = r2

\* ------------------------------------------------------------------------
\* C15..C20: the fill and the rewind (specification Spec)
\* ------------------------------------------------------------------------

\* C15 (as claimed): revertPointer() called after the fill phase leaves the
\* whole offset array equal to the array as it was right after init(), for
\* every set of sequences.
C15_RewindRestoresReadView ==
    phase = "ready" => offsets = startOffs

\* supporting check for C15: each revertPointer() sets offsets[i] to the
\* pre-call offsets[i-1] for every i in [1, A^k] and offsets[0] to 0
RevertShiftsCells ==
    [][phase = "fill" /\ phase' = "ready" =>
          /\ offsets'[0] = 0
          /\ \A i \in 1 .. tableSize : offsets'[i] = offsets[i - 1]]_vars

\* supporting check for C15: the statement for the builds without a mask
RewindRestoresUnmasked ==
    (phase = "ready" /\ masked = {}) => offsets = startOffs

\* the count-fill parity of the sequences added so far
CountFillParity ==
    \A id \in SeqIds :
        /\ fillNext[1] > id => Cardinality(WritesOf(id)) = cntRet[id]
        /\ (\A w \in Workers \ {1} : fillNext[w] > id) =>
               Cardinality(WritesOf(id)) = cntRet[id]

\* every write so far went to a slot of the bucket of its k-mer and of the
\* store, and no cursor is past the end of its bucket
FillInsideBuckets ==
    /\ \A r \in fillLog :
          /\ startOffs[r.kmer] <= r.slot
          /\ r.slot < startOffs[r.kmer + 1]
          /\ r.slot \in DOMAIN entries
          /\ r.slot < startOffs[tableSize]
    /\ phase \in {"offsets", "fill"} =>
          \A i \in Kmers : offsets[i] <= startOffs[i + 1]

\* C16 (as claimed): in every state of the fill phase in which the count-fill
\* parity holds, each posting written for k-mer i is in a slot of
\* [start(i), start(i+1)), start being the offsets right after init(), the
\* cursor of bucket i does not exceed start(i+1), and no write is past the
\* store of offsets[A^k] entries.
C16_FillInsideBucket ==
    CountFillParity => FillInsideBuckets

\* supporting check for C16: the statement for the builds without a mask
FillInsideBucketUnmasked ==
    masked = {} => FillInsideBuckets

\* the postings written so far for k-mer i
WrittenFor(i) == {r \in fillLog : r.kmer = i}

\* C17 (as claimed): offsets[0] = 0 in every state from the end of init()
\* through the fill phase to after revertPointer(), and offsets[A^k] equals
\* the total posting count after init() and again after revertPointer().
C17_BoundaryCells ==
    inited =>
        /\ offsets[0] = 0
        /\ (phase = "ready" \/ fillLog = {}) => offsets[tableSize] = TotalCounted

\* C17 (amended): offsets[0] = 0 right after init() and after
\* revertPointer(); in between it is the write cursor of bucket 0 and equals
\* its value at the start of the fill plus the number of postings written
\* for k-mer 0 so far.  offsets[A^k] equals the total posting count in every
\* state from the end of init() on.
C17_BoundaryCellsAmended ==
    inited =>
        /\ startOffs[0] = 0
        /\ phase = "ready" => offsets[0] = 0
        /\ phase # "ready" =>
              offsets[0] = PreFillOffsets[0] + Cardinality(WrittenFor(0))
        /\ offsets[tableSize] = TotalCounted

\* an unmasked build in the fill phase whose cursor of bucket 0 stands at 2,
\* with more postings than those of bucket 0
C17_Witness ==
    /\ phase = "fill"
    /\ masked = {}
    /\ offsets[0] = 2
    /\ offsets[tableSize] >= 3

\* the step is a call of addSequence by worker w
IsAddSequenceBy(w) == fillNext'[w] # fillNext[w]

\* the buckets (by the offsets init() left) that own store slot `slot`
OwnersOfSlot(slot) == {i \in Kmers : startOffs[i] <= slot /\ slot < startOffs[i + 1]}

\* the step changes no offset cell outside the window of worker w and writes
\* only store slots of buckets inside that window
StaysInWindow(w) ==
    /\ \A i \in 0 .. tableSize :
          ~InWindow(i, Windows[w].aaFrom, Windows[w].aaSize) => offsets'[i] = offsets[i]
    /\ \A r \in fillLog' \ fillLog :
          /\ OwnersOfSlot(r.slot) # {}
          /\ \A i \in OwnersOfSlot(r.slot) : InWindow(i, Windows[w].aaFrom, Windows[w].aaSize)
    /\ \A slot \in DOMAIN entries :
          entries'[slot] # entries[slot] =>
              \E i \in OwnersOfSlot(slot) : InWindow(i, Windows[w].aaFrom, Windows[w].aaSize)

\* C18 (as claimed): a call addSequence(s, ..., aaFrom, aaSize, ...) changes
\* only offset cells whose index lies in [aaFrom, aaFrom+aaSize) and only
\* store slots of those buckets; every cell and every store slot of a bucket
\* outside the window is left unchanged.
C18_WindowRestriction ==
    [][\A w \in Workers : IsAddSequenceBy(w) => StaysInWindow(w)]_vars

\* supporting check for C18: the statement for the builds without a mask
WindowRestrictionUnmasked ==
    [][\A w \in Workers : (IsAddSequenceBy(w) /\ masked = {}) => StaysInWindow(w)]_vars

\* the positions of sequence id at which k-mer i occurs and passes the
\* threshold
PositionsOf(id, i) ==
    {p \in KmerPositions(SeqOf(seqs, id)) : OccursAt(SeqOf(seqs, id), i, p, threshold)}

\* the smallest element of a non-empty set of positions
MinOf(S) == CHOOSE p \in S : \A q \in S : p <= q

\* C19: the posting addSequence writes for a (sequence, k-mer) pair is single
\* and carries the id of the sequence and the smallest of the positions at
\* which the k-mer occurs in it, also when the k-mer occurs at several
\* positions.
C19_FirstOccurrenceWins ==
    /\ \A r \in fillLog :
          /\ r.seqId \in SeqIds
          /\ PositionsOf(r.seqId, r.kmer) # {}
          /\ r.position_j = MinOf(PositionsOf(r.seqId, r.kmer))
    /\ \A r1, r2 \in fillLog :
          (r1.seqId = r2.seqId /\ r1.kmer = r2.kmer) => r1 = r2

\* a posting with position 1 has been written for a k-mer that occurs at
\* positions 1 and 2 of its sequence
C19_Witness ==
    \E r \in fillLog :
        /\ r.position_j = 1
        /\ {1, 2} \subseteq PositionsOf(r.seqId, r.kmer)

\* the ids of the holders of k-mer i in ascending order, as a list indexed
\* from 0
RECURSIVE AscendingFrom(_, _)
AscendingFrom(S, j) ==
    IF S = {} THEN <<>>
    ELSE (j :> MinOf(S)) @@ AscendingFrom(S \ {MinOf(S)}, j + 1)

\* one worker has fed every sequence, in ascending id order, with the full
\* window, and the build is complete
SingleWorkerBuildDone == phase = "ready" /\ fillNext[1] = NumSeqs

\* every bucket lists its postings in strictly ascending seqId order, the
\* j-th posting belonging to the j-th sequence that contains the k-mer
BucketsInIngestOrder ==
    \A i \in Kmers :
        /\ \A j1, j2 \in DOMAIN Bucket(i) :
              j1 < j2 => Bucket(i)[j1].seqId < Bucket(i)[j2].seqId
        /\ \A j \in DOMAIN Bucket(i) :
              /\ j \in DOMAIN AscendingFrom(Holders(i), 0)
              /\ Bucket(i)[j].seqId = AscendingFrom(Holders(i), 0)[j]

\* C20 (as claimed): when one worker feeds the sequences to addSequence in
\* ascending sequence-id order, then after the fill every bucket lists its
\* postings in strictly ascending seqId order (the j-th posting of a bucket
\* belongs to the j-th fed sequence that contains the k-mer).
C20_IngestOrder ==
    SingleWorkerBuildDone => BucketsInIngestOrder

\* supporting check for C20: the statement for the builds without a mask
IngestOrderUnmasked ==
    (SingleWorkerBuildDone /\ masked = {}) => BucketsInIngestOrder

\* ------------------------------------------------------------------------
\* C21  Top-N statistics
\* ------------------------------------------------------------------------

ScanEnded == call # NoCall /\ call.fn = "printStatistics"

\* the slots the scan has filled, and the buckets they name
FilledSlots == {j \in 0 .. top_N - 1 : call.loc.topElements[j].first > 0}
RetainedBuckets == {call.loc.topElements[j].second : j \in FilledSlots}
SizeOfBucket(i) == offsets[i + 1] - offsets[i]

\* C21: after the scan of printStatistics the retained pairs are the top_N
\* largest buckets of the table: each filled slot names a bucket together
\* with its size, and every bucket that is not retained is no larger than
\* every one of the top_N retained sizes; among equal sizes the bucket met
\* first is the one retained
C21_TopNStatistics ==
    ScanEnded =>
        /\ \A j \in FilledSlots :
             /\ call.loc.topElements[j].second \in Kmers
             /\ call.loc.topElements[j].first =
                    SizeOfBucket(call.loc.topElements[j].second)
        /\ \A i \in Kmers \ RetainedBuckets :
             \A j \in 0 .. top_N - 1 :
                 SizeOfBucket(i) <= call.loc.topElements[j].first
        /\ \A i \in Kmers \ RetainedBuckets : \A r \in RetainedBuckets :
             SizeOfBucket(i) = SizeOfBucket(r) => r < i

\* the scan is sound as far as it goes: every filled slot names a bucket
\* with its true size, and the largest bucket of the table is retained
TopNSlotsAreBuckets ==
    ScanEnded =>
        /\ \A j \in FilledSlots :
             /\ call.loc.topElements[j].second \in Kmers
             /\ call.loc.topElements[j].first =
                    SizeOfBucket(call.loc.topElements[j].second)
        /\ \A i \in Kmers : \E j \in 0 .. top_N - 1 :
             SizeOfBucket(i) <= call.loc.topElements[j].first

\* a scan that has lost a bucket: a non-empty bucket is not retained although
\* a slot is still unused
TopNLosesBucket ==
    /\ ScanEnded
    /\ \E i \in Kmers \ RetainedBuckets : SizeOfBucket(i) > 0
    /\ \E j \in 0 .. top_N - 1 : call.loc.topElements[j].first = 0

\* ------------------------------------------------------------------------
\* C22  the emptiness test on live cursors in an unmasked concurrent fill
\* ------------------------------------------------------------------------

\* the slots init() reserved for k-mer k (none for the sentinel cell A^k)
SlotsOfBucket(k) ==
    IF k < tableSize THEN startOffs[k] .. startOffs[k + 1] - 1 ELSE {}

WrittenSlots == {r.slot : r \in fillLog}

\* the k-mer under the cursor of worker w, when w is inside the cursor loop
ScanningKmer(w) == KmerAt(SeqOf(seqs, fillNext[w]), wk[w].p)

InCursorLoop(w) ==
    /\ phase \in {"offsets", "fill"}
    /\ fillNext[w] < NumSeqs
    /\ wk[w].pc = "scan"
    /\ hasNextKmer(SeqOf(seqs, fillNext[w]), wk[w].p)

\* the posting of the k-mer under the cursor of w is due: the counting pass
\* counted it for this sequence (same window membership, same threshold),
\* and the walk of this call has not started yet
PostingDue(w) ==
    /\ InCursorLoop(w)
    /\ InWindow(int2index(ScanningKmer(w), 0, kmerSize),
                Windows[w].aaFrom, Windows[w].aaSize)
    /\ ~FillSkipsKmer(ScanningKmer(w), threshold)

\* C22: in an unmasked build with count-fill parity, in every state between
\* init() and revertPointer() and for every k-mer k, offsets[k+1] - offsets[k]
\* is the number of slots of bucket k not yet written plus the number of
\* slots of bucket k+1 already written; and the emptiness test of line 336 is
\* false for every k-mer under a worker's cursor whose posting is due, also
\* while the neighbour cell belongs to another worker
C22_LiveCursorTest ==
    /\ (inited /\ phase \in {"offsets", "fill"}) =>
          \A k \in Kmers :
              offsets[k + 1] - offsets[k] =
                  Cardinality(SlotsOfBucket(k) \ WrittenSlots)
                  + Cardinality(SlotsOfBucket(k + 1) \cap WrittenSlots)
    /\ \A w \in FillWorkers :
          PostingDue(w) =>
              ~RegionMasked(offsets, int2index(ScanningKmer(w), 0, kmerSize))

\* a worker tests the last k-mer of its window, whose posting is due, after
\* the worker of the next window has advanced the neighbour cell
C22_Witness ==
    \E w \in FillWorkers :
        /\ PostingDue(w)
        /\ LET k == int2index(ScanningKmer(w), 0, kmerSize) IN
             /\ ~InWindow(k + 1, Windows[w].aaFrom, Windows[w].aaSize)
             /\ k + 1 < tableSize
             /\ offsets[k + 1] > startOffs[k + 1]
             /\ SlotsOfBucket(k) \cap WrittenSlots # {}
             /\ offsets[k + 1] - offsets[k] = startOffs[k + 1] - startOffs[k]

\* ------------------------------------------------------------------------
\* C23  selectBestExtentionFragment
\* ------------------------------------------------------------------------

SelectReturned == call # NoCall /\ call.fn = "selectBestExtentionFragment"

\* alignment i of the list qualifies as extension fragment (stated from the
\* contract: not used before, not the query itself, touches a sequence start)
Qualifies(i) ==
    /\ call.alignments[i].dbKey \notin call.prevFound
    /\ call.alignments[i].dbKey # call.queryKey
    /\ (call.alignments[i].dbStartPos = 0 \/ call.alignments[i].qStartPos = 0)

\* C23: selectBestExtentionFragment returns the first alignment in list order
\* whose dbKey is not in prevFound, differs from queryKey, and for which
\* dbStartPos = 0 or qStartPos = 0; when no alignment qualifies the result
\* has dbKey = UINT_MAX; the caller's list and prevFound are as before
C23_SelectBestExtentionFragment ==
    SelectReturned =>
        /\ \A i \in DOMAIN call.alignments :
             (Qualifies(i) /\ \A j \in 1 .. i - 1 : ~Qualifies(j))
                 => call.ret = call.alignments[i]
        /\ (\A i \in DOMAIN call.alignments : ~Qualifies(i))
                 => call.ret.dbKey = UINT_MAX
        /\ call.callerAlignments = call.alignments
        /\ call.callerPrevFound = call.prevFound

\* the call passed over an alignment already used, over one of the query with
\* itself and returned the third
C23_Witness ==
    /\ SelectReturned
    /\ Len(call.alignments) = 3
    /\ call.alignments[1].dbKey \in call.prevFound
    /\ call.alignments[2].dbKey = call.queryKey
    /\ call.alignments[2].qStartPos = 0
    /\ call.alignments[2].dbKey \notin call.prevFound
    /\ Qualifies(3)
    /\ call.ret = call.alignments[3]
    /\ call.ret.dbStartPos # 0

\* ------------------------------------------------------------------------
\* C24  the extension loop of doassembly
\* ------------------------------------------------------------------------

InAssembly == call # NoCall /\ call.fn = "doassembly"

\* the iterations of the current query that selected a target
Extensions == {n \in DOMAIN call.hits : call.hits[n] # UINT_MAX}

\* C24: for a query the extension loop runs at most |alignments| iterations
\* and then exactly one result is written, under the query key; each target
\* dbKey is selected for extension at most once; the query is never extended
\* by itself; the query string never gets shorter; once an iteration finds no
\* candidate, no later iteration of the query finds one
C24_ExtensionLoop ==
    InAssembly =>
        /\ Len(call.hits) <= Len(call.alnData)
        /\ call.pc \in {"start", "loop", "done"}
        /\ call.pc # "done" => call.written = <<>>
        /\ call.pc = "done" =>
             /\ Len(call.written) = 1
             /\ call.written[1].key = call.queryKey
             /\ call.written[1].data = call.query
        /\ \A m, n \in Extensions : call.hits[m] = call.hits[n] => m = n
        /\ \A n \in Extensions : call.hits[n] # call.queryKey
        /\ \A n \in DOMAIN call.lens : n > 1 => call.lens[n] >= call.lens[n - 1]
        /\ \A m, n \in DOMAIN call.hits :
             (m < n /\ call.hits[m] = UINT_MAX) => call.hits[n] = UINT_MAX
        /\ call.alignments \in {<<>>, call.alnData}

\* a query with three alignments was written after its loop extended it at
\* the front by one target and at the end by another, and found no candidate
\* in the third iteration
C24_Witness ==
    /\ InAssembly
    /\ call.pc = "done"
    /\ Len(call.alignments) = 3
    /\ Len(call.hits) = 3
    /\ call.hits[1] # UINT_MAX
    /\ call.hits[2] # UINT_MAX
    /\ call.hits[3] = UINT_MAX
    /\ call.queryOffset > 0
    /\ call.lens[2] > call.lens[1]
    /\ call.lens[3] > call.lens[2]
    /\ Len(call.written) = 1
    /\ \E n \in DOMAIN call.alignments : call.alignments[n].dbKey = call.queryKey

====
